---- MODULE Spec2Model ----
(***************************************************************************)
(* Verification model of the analytics framework of the parliament speech  *)
(* analyzer: the two-level CacheManager (backend/analyzers/cache.py), the  *)
(* BaseAnalyzer contract (backend/analyzers/base.py), the AnalyzerRegistry *)
(* (backend/analyzers/registry.py) and the AnalyticsOrchestrator           *)
(* (backend/analyzers/orchestrator.py).                                    *)
(*                                                                         *)
(* Strings of the program (cache keys, invalidation patterns, file names)  *)
(* are sequences of tokens, so that substring tests, the sanitising of a   *)
(* key into a file name and glob matching are computed, not assumed.       *)
(* Python values are records [repr, id]: repr tells how the value is held  *)
(* in memory, id tells which data it carries.                              *)
(***************************************************************************)
EXTENDS Integers, Sequences, FiniteSets, TLC

(***************************************************************************)
(* Bounds                                                                  *)
(***************************************************************************)
\* number of cache API calls explored in one behaviour of the cache specs
MaxOps == 3

\* number of run calls made before run_all
MaxRuns == 2

(***************************************************************************)
(* Python values                                                           *)
(***************************************************************************)
\* Python None, as returned by get() on a miss
None == [repr |-> "None", id |-> 0]

\* "key not in self._memory"
Absent == [repr |-> "absent", id |-> 0]

\* no file at a path
NoFile == [repr |-> "nofile", id |-> 0]

\* a file holding an incomplete JSON text (json.dump raised after open(path,'w'))
Truncated == [repr |-> "truncated", id |-> 0]

\* the distinct payloads a stored value can carry
Payloads == {1, 2}

\* plain JSON-native structures (dict/list/str/int/float/bool)
JsonValues == [repr : {"json"}, id : Payloads]

\* structures holding numpy arrays or numpy scalars
NumpyValues == [repr : {"numpy"}, id : Payloads]

\* a structure holding an object json cannot encode (TypeError in json.dump)
Opaque == [repr |-> "opaque", id |-> 0]

\* a structure that contains itself (ValueError: Circular reference detected)
Cyclic == [repr |-> "cyclic", id |-> 0]

\* the values json.dump(..., cls=NumpyEncoder) can encode
Serializable == JsonValues \cup NumpyValues

Values == Serializable \cup {Opaque, Cyclic}

\* NumpyEncoder.default: np.integer -> int, np.floating -> float,
\* np.ndarray -> list, np.bool_ -> bool; anything else is refused by
\* json.JSONEncoder.default with a TypeError
NumpyEncoder(v) ==
    IF v.repr = "numpy" THEN [repr |-> "json", id |-> v.id] ELSE v

\* json.dump(value, f, cls=NumpyEncoder) on a file just opened for writing:
\* the text left in the file and the exception raised, if any
json_dump(v) ==
    CASE v.repr = "json"   -> [text |-> v, exc |-> "none"]
      [] v.repr = "numpy"  -> [text |-> NumpyEncoder(v), exc |-> "none"]
      [] v.repr = "opaque" -> [text |-> Truncated, exc |-> "TypeError"]
      [] OTHER             -> [text |-> Truncated, exc |-> "ValueError"]

\* json.load(f): the parsed value, or JSONDecodeError on an incomplete text
json_load(c) ==
    IF c.repr = "json" THEN [val |-> c, exc |-> "none"]
    ELSE [val |-> None, exc |-> "JSONDecodeError"]

\* the value a JSON round trip (dump then load) turns a serializable value into
JsonRoundTrip(v) == json_load(json_dump(v).text).val

(***************************************************************************)
(* Keys, patterns and file names                                           *)
(***************************************************************************)
Sources == {"camera", "senato"}

\* a cache directory that leaves the source out of the path
cache_dir_shared(source) == <<"analyzers">>

\* CacheManager.__init__: self.cache_dir = Path(cache_dir) / 'analyzers' / source
cache_dir(source) == <<"analyzers", source>>

\* cache keys handed to the CacheManager directly
CacheKeys == { <<"x", "/", "y">>, <<"x", "_", "y">>, <<"_", "metadata">> }

\* substring patterns handed to invalidate()
Patterns == { <<"x">>, <<"/">>, <<"_">> }

\* invalidate(pattern=None): the empty tuple stands for Python None
NoPattern == << >>

\* a sanitization that keeps nothing of the key
safe_key_constant(key) == <<"cache">>

\* key.replace('/', '_').replace('\\', '_')
safe_key(key) ==
    [i \in 1..Len(key) |-> IF key[i] \in {"/", "\\"} THEN "_" ELSE key[i]]

\* CacheManager._get_path: the file name under the source's directory
get_path(key) == safe_key(key) \o <<".json">>

\* CacheManager._get_meta_path
get_meta_path == <<"_", "metadata", ".json">>

\* Python's "pattern in k"
Contains(k, pattern) ==
    \E i \in 0..(Len(k) - Len(pattern)) :
        SubSeq(k, i + 1, i + Len(pattern)) = pattern

\* fnmatch of a file name against a glob pattern ("*" matches any run of
\* tokens, every other token matches itself), as Path.glob applies it to the
\* entries of the cache directory
RECURSIVE fnmatch(_, _)
fnmatch(name, pat) ==
    IF pat = << >> THEN name = << >>
    ELSE IF Head(pat) = "*"
         THEN \/ fnmatch(name, Tail(pat))
              \/ (name # << >> /\ fnmatch(Tail(name), pat))
         ELSE name # << >> /\ Head(name) = Head(pat)
              /\ fnmatch(Tail(name), Tail(pat))

\* the glob handed to self.cache_dir.glob by invalidate()
glob_pattern(pattern) ==
    IF pattern = NoPattern THEN <<"*", ".json">>
    ELSE <<"*">> \o pattern \o <<"*", ".json">>

(***************************************************************************)
(* CacheManager: one instance per source.  memory[s] is self._memory,      *)
(* metadata[s] the key set of self._metadata, persist[s] self.persist and  *)
(* disk[d] the files of the directory d.                                   *)
(***************************************************************************)
VARIABLES memory, metadata, disk, persist, stored, retained, last, nops

(***************************************************************************)
(* AnalyticsOrchestrator and one run_all: registry is the iteration order  *)
(* of AnalyzerRegistry._analyzers, config the loaded configuration, shared *)
(* which shared resources the orchestrator was given, cache_on whether it  *)
(* holds a CacheManager.  pc, use_cache, pending, units, results are the   *)
(* position, argument, loop iterator and local state of run_all;           *)
(* constructed and computed record the units run_all constructed and       *)
(* whose compute() it had called.                                          *)
(***************************************************************************)
VARIABLES registry, config, shared, cache_on,
          pc, use_cache, pending, units, results, constructed, computed

orchVars == <<registry, config, shared, cache_on,
              pc, use_cache, pending, units, results, constructed, computed>>

(***************************************************************************)
(* AnalyzerRegistry._analyzers is a dict: registry holds its keys in       *)
(* insertion order, classes the class stored under each key.               *)
(* registrations is the sequence of register calls made since the          *)
(* registry was last empty.                                                *)
(***************************************************************************)
VARIABLES classes, registrations

regVars == <<classes, registrations>>

(***************************************************************************)
(* One analyzer instance: analyzer is the object BaseAnalyzer.__init__     *)
(* built (with the arguments it was given), default_features the class     *)
(* attribute of every analyzer class, answer what the last method called   *)
(* on the instance returned or raised.                                     *)
(***************************************************************************)
VARIABLES analyzer, default_features, answer

unitVars == <<analyzer, default_features, answer>>

(***************************************************************************)
(* The per-partition fan-out: tasks holds, for every partition, how far    *)
(* its worker (compute_source_output) has come, what it built and what it  *)
(* raised; collected the partitions whose result the parent has taken;     *)
(* export the state of the parent.                                         *)
(***************************************************************************)
VARIABLES tasks, collected, export

exportVars == <<tasks, collected, export>>

(***************************************************************************)
(* assign_topics_by_semantics: taxonomy is the key order of topic_clusters,*)
(* affinity the cosine similarity of every embedding row to the embedded   *)
(* text of every topic, assigned what the last call returned and previous  *)
(* what the call before it returned.                                       *)
(***************************************************************************)
VARIABLES taxonomy, affinity, assigned, previous

topicVars == <<taxonomy, affinity, assigned, previous>>

(***************************************************************************)
(* The centroid scores: df is the speech table with the embedding of every *)
(* row, scores what compute_party_centroids, compute_party_cohesion and    *)
(* compute_senator_conformity returned for it.                             *)
(***************************************************************************)
VARIABLES df, scores

scoreVars == <<df, scores>>

(***************************************************************************)
(* The retry decorator: wrapped is the decorated function with the         *)
(* arguments of retry(), frame the locals of one call of the wrapper,      *)
(* call_count the invocations of the function, slept the time.sleep()      *)
(* calls, finished how the call of the wrapper ended.                      *)
(***************************************************************************)
VARIABLES wrapped, frame, call_count, slept, finished

retryVars == <<wrapped, frame, call_count, slept, finished>>

(***************************************************************************)
(* Two callers of compute_cached on one shared CacheManager: callers holds *)
(* the position and the locals of each, writes the order in which they     *)
(* wrote the memory entry and closed the file.                             *)
(***************************************************************************)
VARIABLES callers, writes

raceVars == <<callers, writes>>

(***************************************************************************)
(* The inputs of a run_all that are compared across registry orders:       *)
(* behaviour tells what the constructor and compute() of each unit do,     *)
(* precached the units whose result file an earlier process left on disk.  *)
(***************************************************************************)
VARIABLES behaviour, precached

orderVars == <<behaviour, precached>>

(***************************************************************************)
(* The export pipeline of main(): cache_files are the speeches and the     *)
(* embeddings file of the data source in CACHE_DIR, main_pc the position   *)
(* of main() with its flags, dataset and embeddings its df and embedding   *)
(* matrix, subset the last pair filter_data_by_period or the per-source    *)
(* slicing derived from them.                                              *)
(***************************************************************************)
VARIABLES cache_files, main_pc, dataset, embeddings, subset

pipelineVars == <<cache_files, main_pc, dataset, embeddings, subset>>

\* the cache of the cache specifications
coreVars == <<memory, metadata, disk, persist, stored, retained, last, nops>>

\* the state of the components other than the cache and the orchestrator
otherVars == <<regVars, unitVars, exportVars, topicVars, scoreVars, retryVars, raceVars, orderVars, pipelineVars>>

\* what an action of one component leaves alone among the other components
besideRegistry == <<unitVars, exportVars, topicVars, scoreVars, retryVars, raceVars, orderVars, pipelineVars>>

besideUnit == <<regVars, exportVars, topicVars, scoreVars, retryVars, raceVars, orderVars, pipelineVars>>

besideExport == <<regVars, unitVars, topicVars, scoreVars, retryVars, raceVars, orderVars, pipelineVars>>

besideTopics == <<regVars, unitVars, exportVars, scoreVars, retryVars, raceVars, orderVars, pipelineVars>>

besideScores == <<regVars, unitVars, exportVars, topicVars, retryVars, raceVars, orderVars, pipelineVars>>

besideRetry == <<regVars, unitVars, exportVars, topicVars, scoreVars, raceVars, orderVars, pipelineVars>>

besideRace == <<regVars, unitVars, exportVars, topicVars, scoreVars, retryVars, orderVars, pipelineVars>>

besideOrder == <<regVars, unitVars, exportVars, topicVars, scoreVars, retryVars, raceVars, pipelineVars>>

besidePipeline == <<regVars, unitVars, exportVars, topicVars, scoreVars, retryVars, raceVars, orderVars>>

\* the name attribute of the analyzer classes of the model
AnalyzerNames == { <<"identity">>, <<"sentiment">>, <<"factions">> }

\* BaseAnalyzer.version, which no analyzer of the package overrides differently
version == <<"1.0">>

\* a unit key that leaves the unit's name out
default_key_shared(name) == <<"analyzer", "_", "v">> \o version

\* f"{self.name}_v{self.version}"
default_key(name) == name \o <<"_", "v">> \o version

\* the names run() is called with: the registered ones and one that is not
RunNames == AnalyzerNames \cup { <<"unknown">> }

\* a name a class can be registered under besides those of the package: it
\* ends with the name of a unit of the package
LateNames == { <<"transformer", "_", "sentiment">> }

AllKeys == CacheKeys \cup { default_key(n) : n \in RunNames \cup LateNames }

Dirs == { cache_dir(s) : s \in Sources }

Files == { get_path(k) : k \in AllKeys } \cup {get_meta_path}

EmptyMemory == [k \in AllKeys |-> Absent]

EmptyDir == [f \in Files |-> NoFile]

\* the outcome of opening and reading or writing a file of the cache directory
IoOutcomes == {"ok", "IOError"}

\* the persist argument of set(): None, True or False
PersistArgs == {"None", "True", "False"}

\* CacheManager.has
has(mem, dsk, p, key) ==
    IF mem[key] # Absent THEN TRUE
    ELSE IF p THEN dsk[get_path(key)] # NoFile
    ELSE FALSE

\* the exceptions the except clause of get() catches
get_caught == {"JSONDecodeError", "IOError"}

\* CacheManager.get: the value returned, self._memory afterwards, and the
\* exception that leaves the method ("none": it returns normally).
\* io is the outcome of open(path, 'r').
get(mem, dsk, p, key, io) ==
    LET path == get_path(key)
        raised == IF io # "ok" THEN io ELSE json_load(dsk[path]).exc
    IN  IF mem[key] # Absent
        THEN [ret |-> mem[key], mem |-> mem, exc |-> "none"]
        ELSE IF p /\ dsk[path] # NoFile
             THEN IF raised = "none"
                  THEN [ret |-> json_load(dsk[path]).val,
                        mem |-> [mem EXCEPT ![key] = json_load(dsk[path]).val],
                        exc |-> "none"]
                  ELSE IF raised \in get_caught
                       THEN [ret |-> None, mem |-> mem, exc |-> "none"]
                       ELSE [ret |-> None, mem |-> mem, exc |-> raised]
             ELSE [ret |-> None, mem |-> mem, exc |-> "none"]

\* the exceptions the except clause of set() catches
set_caught == {"TypeError", "IOError"}

\* a set() that leaves memory alone when the value goes to disk
set_persist_only(mem, meta, dsk, p, key, value, parg, io) ==
    LET should_persist == IF parg = "None" THEN p ELSE parg = "True"
        raised == IF ~should_persist THEN "none"
                  ELSE IF io # "ok" THEN io
                  ELSE json_dump(value).exc
    IN  [mem  |-> IF should_persist THEN mem ELSE [mem EXCEPT ![key] = value],
         meta |-> meta \cup {key},
         dsk  |-> IF should_persist /\ io = "ok"
                  THEN [dsk EXCEPT ![get_path(key)] = json_dump(value).text]
                  ELSE dsk,
         exc  |-> IF raised \in set_caught THEN "none" ELSE raised]

\* CacheManager.set: self._memory, self._metadata and the directory
\* afterwards, and the exception that leaves the method.
\* parg is the persist argument, io the outcome of open(path, 'w').
set(mem, meta, dsk, p, key, value, parg, io) ==
    LET should_persist == IF parg = "None" THEN p ELSE parg = "True"
        raised == IF ~should_persist THEN "none"
                  ELSE IF io # "ok" THEN io
                  ELSE json_dump(value).exc
    IN  [mem  |-> [mem EXCEPT ![key] = value],
         meta |-> meta \cup {key},
         dsk  |-> IF should_persist /\ io = "ok"
                  THEN [dsk EXCEPT ![get_path(key)] = json_dump(value).text]
                  ELSE dsk,
         exc  |-> IF raised \in set_caught THEN "none" ELSE raised]

\* the files invalidate() unlinks: those the glob yields, except _metadata.json
unlinked(dsk, pattern) ==
    { f \in Files : /\ dsk[f] # NoFile
                    /\ fnmatch(f, glob_pattern(pattern))
                    /\ f # get_meta_path }

\* an invalidate() that drops the key equal to the pattern
keys_to_remove_exact(mem, pattern) ==
    IF pattern = NoPattern THEN { k \in AllKeys : mem[k] # Absent }
    ELSE { k \in AllKeys : mem[k] # Absent /\ k = pattern }

\* the keys invalidate() drops from self._memory and self._metadata
keys_to_remove(mem, pattern) ==
    IF pattern = NoPattern THEN { k \in AllKeys : mem[k] # Absent }
    ELSE { k \in AllKeys : mem[k] # Absent /\ Contains(k, pattern) }

\* CacheManager.invalidate
invalidate(mem, meta, dsk, p, pattern) ==
    [mem  |-> [k \in AllKeys |->
                 IF k \in keys_to_remove(mem, pattern) THEN Absent ELSE mem[k]],
     meta |-> IF pattern = NoPattern THEN {}
              ELSE meta \ keys_to_remove(mem, pattern),
     dsk  |-> IF p
              THEN [f \in Files |->
                      IF f \in unlinked(dsk, pattern) THEN NoFile ELSE dsk[f]]
              ELSE dsk]

\* CacheManager.clear_memory
clear_memory(mem) == EmptyMemory

(***************************************************************************)
(* BaseAnalyzer and the analyzer classes                                   *)
(***************************************************************************)
\* compute() raising instead of returning a result
Raises == [repr |-> "raise", id |-> 0]

\* what the body of one compute() does: it returns a value or raises
Outcomes == Values \cup {Raises}

\* the shared resources a unit can declare
Resources == {"embeddings", "cluster_labels", "cluster_centroids"}

\* get_dependencies of IdentityAnalyzer, SentimentAnalyzer, FactionsAnalyzer;
\* BaseAnalyzer.get_dependencies returns []
get_dependencies(name) ==
    CASE name = <<"identity">>  -> <<"embeddings", "cluster_labels", "cluster_centroids">>
      [] name = <<"sentiment">> -> <<"cluster_labels">>
      [] name = <<"factions">>  -> <<"embeddings">>
      [] OTHER                  -> << >>

\* Python's "dep in deps"
Declares(name, dep) ==
    \E i \in DOMAIN get_dependencies(name) : get_dependencies(name)[i] = dep

\* a validation that wants every shared resource, declared or not
validate_every_resource(name, sh) ==
    IF \E d \in Resources : ~sh[d] THEN "ValueError" ELSE "none"

\* BaseAnalyzer.validate_dependencies: the exception it raises, "none" when it
\* returns True.  sh tells which resources the analyzer was constructed with
\* (embeddings is not None, cluster_labels non-empty, cluster_centroids is
\* not None).
validate_dependencies(name, sh) ==
    IF \E d \in Resources : Declares(name, d) /\ ~sh[d]
    THEN "ValueError" ELSE "none"

\* whether the class's compute() starts with self.validate_dependencies()
calls_validate(name) == name = <<"identity">>

\* compute() of the analyzer called name, whose body would behave as outcome:
\* the value returned and the exception raised
compute(name, sh, outcome) ==
    IF calls_validate(name) /\ validate_dependencies(name, sh) # "none"
    THEN [val |-> None, exc |-> validate_dependencies(name, sh)]
    ELSE IF outcome = Raises
    THEN [val |-> None, exc |-> "ComputeError"]
    ELSE [val |-> outcome, exc |-> "none"]

\* cache_key=None
NoKey == << >>

\* a compute_cached() that never stores what it computed
compute_cached_nostore(cached, mem, meta, dsk, p, name, cache_key, c, rio, wio) ==
    LET key == IF cache_key # NoKey THEN cache_key ELSE default_key(name)
        g == get(mem, dsk, p, key, rio)
    IN  IF cached /\ has(mem, dsk, p, key)
        THEN [ret |-> g.ret, computed |-> FALSE, mem |-> g.mem, meta |-> meta,
              dsk |-> dsk, exc |-> g.exc, key |-> key]
        ELSE [ret |-> c.val, computed |-> TRUE, mem |-> mem, meta |-> meta,
              dsk |-> dsk, exc |-> c.exc, key |-> key]

\* a compute_cached() that keeps a failed computation in memory
compute_cached_failure(cached, mem, meta, dsk, p, name, cache_key, c, rio, wio) ==
    LET key == IF cache_key # NoKey THEN cache_key ELSE default_key(name)
        g == get(mem, dsk, p, key, rio)
        w == set(mem, meta, dsk, p, key, c.val, "None", wio)
    IN  IF cached /\ has(mem, dsk, p, key)
        THEN [ret |-> g.ret, computed |-> FALSE, mem |-> g.mem, meta |-> meta,
              dsk |-> dsk, exc |-> g.exc, key |-> key]
        ELSE IF c.exc # "none"
        THEN [ret |-> None, computed |-> TRUE,
              mem |-> IF cached THEN [mem EXCEPT ![key] = None] ELSE mem,
              meta |-> meta, dsk |-> dsk, exc |-> c.exc, key |-> key]
        ELSE IF cached
        THEN [ret |-> c.val, computed |-> TRUE, mem |-> w.mem, meta |-> w.meta,
              dsk |-> w.dsk, exc |-> w.exc, key |-> key]
        ELSE [ret |-> c.val, computed |-> TRUE, mem |-> mem, meta |-> meta,
              dsk |-> dsk, exc |-> "none", key |-> key]

\* BaseAnalyzer.compute_cached of an analyzer called name; c is what its
\* compute() does when called, cached is "self.cache is not None".
\* Yields the value returned, whether compute() was invoked, the cache
\* afterwards, and the exception that leaves the method.
compute_cached(cached, mem, meta, dsk, p, name, cache_key, c, rio, wio) ==
    LET key == IF cache_key # NoKey THEN cache_key ELSE default_key(name)
        g == get(mem, dsk, p, key, rio)
        w == set(mem, meta, dsk, p, key, c.val, "None", wio)
    IN  IF cached /\ has(mem, dsk, p, key)
        THEN [ret |-> g.ret, computed |-> FALSE, mem |-> g.mem, meta |-> meta,
              dsk |-> dsk, exc |-> g.exc, key |-> key]
        ELSE IF c.exc # "none"
        THEN [ret |-> None, computed |-> TRUE, mem |-> mem, meta |-> meta,
              dsk |-> dsk, exc |-> c.exc, key |-> key]
        ELSE IF cached
        THEN [ret |-> c.val, computed |-> TRUE, mem |-> w.mem, meta |-> w.meta,
              dsk |-> w.dsk, exc |-> w.exc, key |-> key]
        ELSE [ret |-> c.val, computed |-> TRUE, mem |-> mem, meta |-> meta,
              dsk |-> dsk, exc |-> "none", key |-> key]

(***************************************************************************)
(* AnalyzerRegistry and the dependency filter of run_all                   *)
(***************************************************************************)
\* the registration order of the package: identity, sentiment, ..., factions
RegistryOrder == << <<"identity">>, <<"sentiment">>, <<"factions">> >>

\* a registry that knows every name
registered_any(reg, name) == TRUE

\* AnalyzerRegistry.get: whether the name is a key of _analyzers
registered(reg, name) == \E i \in DOMAIN reg : reg[i] = name

\* an is_enabled() that ignores the configuration
is_enabled_always(cfg, name) == TRUE

\* BaseAnalyzer.is_enabled: config.get(cls.name, {}).get('enabled', True).
\* cfg[name] is "unset" when the entry or its flag is missing.
is_enabled(cfg, name) == cfg[name] # "false"

\* AnalyzerRegistry.get_enabled: the enabled classes, in registry order
RECURSIVE get_enabled(_, _)
get_enabled(reg, cfg) ==
    IF reg = << >> THEN << >>
    ELSE IF is_enabled(cfg, Head(reg))
         THEN <<Head(reg)>> \o get_enabled(Tail(reg), cfg)
         ELSE get_enabled(Tail(reg), cfg)

\* a filter that only tests the embedding matrix
missing_embeddings_only(name, sh) ==
    { d \in {"embeddings"} : Declares(name, d) /\ ~sh[d] }

\* a filter that tests all three shared resources
missing_any_resource(name, sh) ==
    { d \in Resources : Declares(name, d) /\ ~sh[d] }

\* the list "missing" run_all builds for a class before it constructs it
missing(name, sh) ==
    { d \in {"embeddings", "cluster_centroids"} : Declares(name, d) /\ ~sh[d] }

\* a try block that only encloses the computation
guarded_compute_only(stage) == stage = "compute"

\* a try block that ends before the computation
guarded_before_compute(stage) == stage \in {"dependencies", "construct"}

\* whether the statements of a stage of the loop body stand inside the
\* try block whose handler is "except Exception"
guarded(stage) == stage \in {"dependencies", "construct", "compute"}

\* an entry of the mapping run_all returns
NoEntry == [kind |-> "none", val |-> None, msg |-> "none"]

ResultEntry(v) == [kind |-> "result", val |-> v, msg |-> "none"]

\* {'error': str(e)}
ErrorEntry(e) == [kind |-> "error", val |-> None, msg |-> e]

(***************************************************************************)
(* The cache API as actions.  last records the call just made and, in      *)
(* prev, the call before it.  stored and retained are history variables:   *)
(* stored[s][k] is the result the last completed compute() stored under k  *)
(* since k was last invalidated on this manager; retained[s][k] is the     *)
(* same, forgotten by clear_memory as well.                                *)
(***************************************************************************)
NoPrev == [op |-> "init", src |-> "camera", key |-> << >>, val |-> None, exc |-> "none"]

NoCall == [op |-> "init", src |-> "camera", key |-> << >>, val |-> None,
           ret |-> None, exc |-> "none", computed |-> FALSE, prev |-> NoPrev]

Call(op, s, key, val, ret, exc, ran) ==
    [op |-> op, src |-> s, key |-> key, val |-> val, ret |-> ret, exc |-> exc,
     computed |-> ran,
     prev |-> [op |-> last.op, src |-> last.src, key |-> last.key,
               val |-> last.val, exc |-> last.exc]]

\* the keys an invalidate(pattern) call names
Named(pattern) ==
    IF pattern = NoPattern THEN AllKeys
    ELSE { k \in AllKeys : Contains(k, pattern) }

Forget(h, keys) == [k \in AllKeys |-> IF k \in keys THEN Absent ELSE h[k]]

\* CacheManager(cache_dir, source, persist) on a directory that may hold the
\* files of earlier instances
NewManager(s, p) ==
    /\ nops < MaxOps
    /\ memory' = [memory EXCEPT ![s] = EmptyMemory]
    /\ metadata' = [metadata EXCEPT ![s] = {}]
    /\ persist' = [persist EXCEPT ![s] = p]
    /\ stored' = [stored EXCEPT ![s] = EmptyMemory]
    /\ retained' = [retained EXCEPT ![s] = EmptyMemory]
    /\ last' = Call("new", s, << >>, None, None, "none", FALSE)
    /\ nops' = nops + 1
    /\ UNCHANGED <<disk, orchVars>>
    /\ UNCHANGED otherVars

Get(s, key, io) ==
    LET r == get(memory[s], disk[cache_dir(s)], persist[s], key, io) IN
    /\ nops < MaxOps
    \* the read outcome matters only when the file is opened
    /\ io = "IOError" =>
          /\ memory[s][key] = Absent
          /\ persist[s]
          /\ disk[cache_dir(s)][get_path(key)] # NoFile
    /\ memory' = [memory EXCEPT ![s] = r.mem]
    /\ last' = Call("get", s, key, None, r.ret, r.exc, FALSE)
    /\ nops' = nops + 1
    /\ UNCHANGED <<metadata, disk, persist, stored, retained, orchVars>>
    /\ UNCHANGED otherVars

Set(s, key, value, parg, io) ==
    LET r == set(memory[s], metadata[s], disk[cache_dir(s)], persist[s],
                 key, value, parg, io) IN
    /\ nops < MaxOps
    \* the write outcome matters only when the file is opened
    /\ io = "IOError" => (IF parg = "None" THEN persist[s] ELSE parg = "True")
    /\ memory' = [memory EXCEPT ![s] = r.mem]
    /\ metadata' = [metadata EXCEPT ![s] = r.meta]
    /\ disk' = [disk EXCEPT ![cache_dir(s)] = r.dsk]
    /\ last' = Call("set", s, key, value, None, r.exc, FALSE)
    /\ nops' = nops + 1
    /\ UNCHANGED <<persist, stored, retained, orchVars>>
    /\ UNCHANGED otherVars

Invalidate(s, pattern) ==
    LET r == invalidate(memory[s], metadata[s], disk[cache_dir(s)], persist[s],
                        pattern) IN
    /\ nops < MaxOps
    /\ memory' = [memory EXCEPT ![s] = r.mem]
    /\ metadata' = [metadata EXCEPT ![s] = r.meta]
    /\ disk' = [disk EXCEPT ![cache_dir(s)] = r.dsk]
    /\ stored' = [stored EXCEPT ![s] = Forget(stored[s], Named(pattern))]
    /\ retained' = [retained EXCEPT ![s] = Forget(retained[s], Named(pattern))]
    /\ last' = Call("invalidate", s, pattern, None, None, "none", FALSE)
    /\ nops' = nops + 1
    /\ UNCHANGED <<persist, orchVars>>
    /\ UNCHANGED otherVars

ClearMemory(s) ==
    /\ nops < MaxOps
    /\ memory' = [memory EXCEPT ![s] = clear_memory(memory[s])]
    /\ retained' = [retained EXCEPT ![s] = EmptyMemory]
    /\ last' = Call("clear_memory", s, << >>, None, None, "none", FALSE)
    /\ nops' = nops + 1
    /\ UNCHANGED <<metadata, disk, persist, stored, orchVars>>
    /\ UNCHANGED otherVars

\* compute_cached(cache_key) on an analyzer that holds the manager of s
ComputeCached(s, name, cache_key, outcome, rio, wio) ==
    LET c == compute(name, shared, outcome)
        r == compute_cached(TRUE, memory[s], metadata[s], disk[cache_dir(s)],
                            persist[s], name, cache_key, c, rio, wio)
        hit == has(memory[s], disk[cache_dir(s)], persist[s], r.key)
        done == r.computed /\ c.exc = "none"
    IN
    /\ nops < MaxOps
    \* the read outcome matters only when get() opens the file, the write
    \* outcome only when set() does
    /\ rio = "IOError" => (hit /\ memory[s][r.key] = Absent)
    /\ wio = "IOError" => (done /\ persist[s])
    \* on a hit compute() is not called: its outcome is no input of the call
    /\ hit => outcome = Raises
    /\ memory' = [memory EXCEPT ![s] = r.mem]
    /\ metadata' = [metadata EXCEPT ![s] = r.meta]
    /\ disk' = [disk EXCEPT ![cache_dir(s)] = r.dsk]
    /\ stored' = IF done THEN [stored EXCEPT ![s][r.key] = c.val] ELSE stored
    /\ retained' = IF done THEN [retained EXCEPT ![s][r.key] = c.val] ELSE retained
    /\ last' = Call("compute_cached", s, r.key,
                    IF r.computed THEN outcome ELSE None, r.ret, r.exc, r.computed)
    /\ nops' = nops + 1
    /\ UNCHANGED <<persist, orchVars>>
    /\ UNCHANGED otherVars

(***************************************************************************)
(* AnalyticsOrchestrator.run_all, one step of its loop at a time.  The     *)
(* orchestrator is the one of source "camera".                             *)
(***************************************************************************)
Orch == "camera"

UnitState(status, exc) == [status |-> status, exc |-> exc]

\* results = {}; enabled_analyzers = AnalyzerRegistry.get_enabled(self.config)
RunAllStart(uc) ==
    /\ pc = "idle"
    /\ pc' = "running"
    /\ use_cache' = uc
    /\ pending' = get_enabled(registry, config)
    /\ units' = [n \in AnalyzerNames |->
                   IF registered(registry, n) /\ is_enabled(config, n)
                   THEN UnitState("pending", "none")
                   ELSE UnitState("disabled", "none")]
    /\ results' = [n \in AnalyzerNames |-> NoEntry]
    /\ constructed' = {}
    /\ computed' = {}
    /\ last' = Call("run_all", Orch, << >>, None, None, "none", FALSE)
    /\ UNCHANGED <<memory, metadata, disk, persist, stored, retained, nops,
                   registry, config, shared, cache_on>>
    /\ UNCHANGED otherVars

\* what the loop does with an exception e raised at a stage of the unit n:
\* the except clause records it and the loop goes on, or it leaves run_all
Raise(n, stage, e) ==
    IF guarded(stage)
    THEN /\ results' = [results EXCEPT ![n] = ErrorEntry(e)]
         /\ units' = [units EXCEPT ![n] = UnitState("failed", e)]
         /\ pending' = Tail(pending)
         /\ pc' = pc
    ELSE /\ units' = [units EXCEPT ![n] = UnitState("failed", e)]
         /\ pc' = "aborted"
         /\ UNCHANGED <<results, pending>>

\* deps = analyzer_class.get_dependencies(); the two availability tests;
\* "continue" when something is missing
CheckDependencies ==
    /\ pc = "running"
    /\ pending # << >>
    /\ units[Head(pending)].status = "pending"
    /\ IF missing(Head(pending), shared) # {}
       THEN /\ units' = [units EXCEPT ![Head(pending)] = UnitState("skipped", "none")]
            /\ pending' = Tail(pending)
       ELSE /\ units' = [units EXCEPT ![Head(pending)] =
                            UnitState("dependency-checked", "none")]
            /\ pending' = pending
    /\ UNCHANGED <<memory, metadata, disk, persist, stored, retained, last, nops,
                   registry, config, shared, cache_on, pc, use_cache, results,
                   constructed, computed>>
    /\ UNCHANGED otherVars

\* analyzer = self._create_analyzer(analyzer_class); ctor is what the
\* constructor does
Construct(ctor) ==
    /\ pc = "running"
    /\ pending # << >>
    /\ units[Head(pending)].status = "dependency-checked"
    /\ constructed' = constructed \cup {Head(pending)}
    /\ IF ctor = "none"
       THEN /\ units' = [units EXCEPT ![Head(pending)] = UnitState("computing", "none")]
            /\ UNCHANGED <<pending, results, pc>>
       ELSE Raise(Head(pending), "construct", ctor)
    /\ UNCHANGED <<memory, metadata, disk, persist, stored, retained, last, nops,
                   registry, config, shared, cache_on, use_cache, computed>>
    /\ UNCHANGED otherVars

\* results[name] = analyzer.compute_cached() if use_cache else analyzer.compute()
Compute(outcome, rio, wio) ==
    LET n == Head(pending)
        c == compute(n, shared, outcome)
        r == IF use_cache
             THEN compute_cached(cache_on, memory[Orch], metadata[Orch],
                                 disk[cache_dir(Orch)], persist[Orch],
                                 n, NoKey, c, rio, wio)
             ELSE [ret |-> c.val, computed |-> TRUE, mem |-> memory[Orch],
                   meta |-> metadata[Orch], dsk |-> disk[cache_dir(Orch)],
                   exc |-> c.exc, key |-> default_key(n)]
        hit == ~r.computed
        done == r.computed /\ c.exc = "none"
        stores == done /\ use_cache /\ cache_on
    IN
    /\ pc = "running"
    /\ pending # << >>
    /\ units[n].status = "computing"
    /\ rio = "IOError" => (hit /\ memory[Orch][r.key] = Absent)
    /\ wio = "IOError" => (stores /\ persist[Orch])
    /\ hit => outcome = Raises
    /\ memory' = [memory EXCEPT ![Orch] = r.mem]
    /\ metadata' = [metadata EXCEPT ![Orch] = r.meta]
    /\ disk' = [disk EXCEPT ![cache_dir(Orch)] = r.dsk]
    /\ stored' = IF stores THEN [stored EXCEPT ![Orch][r.key] = c.val] ELSE stored
    /\ retained' = IF stores THEN [retained EXCEPT ![Orch][r.key] = c.val] ELSE retained
    /\ computed' = IF r.computed THEN computed \cup {n} ELSE computed
    /\ IF r.exc = "none"
       THEN /\ results' = [results EXCEPT ![n] = ResultEntry(r.ret)]
            /\ units' = [units EXCEPT ![n] = UnitState("done", "none")]
            /\ pending' = Tail(pending)
            /\ pc' = pc
       ELSE Raise(n, "compute", r.exc)
    /\ UNCHANGED <<persist, last, nops, registry, config, shared, cache_on,
                   use_cache, constructed>>
    /\ UNCHANGED otherVars

\* return results
RunAllReturn ==
    /\ pc = "running"
    /\ pending = << >>
    /\ pc' = "done"
    /\ UNCHANGED <<memory, metadata, disk, persist, stored, retained, last, nops,
                   registry, config, shared, cache_on, use_cache, pending, units,
                   results, constructed, computed>>
    /\ UNCHANGED otherVars

\* AnalyticsOrchestrator.run(analyzer_name, use_cache), called before run_all
Run(name, uc, ctor, outcome, rio, wio) ==
    LET c == compute(name, shared, outcome)
        r == IF uc
             THEN compute_cached(cache_on, memory[Orch], metadata[Orch],
                                 disk[cache_dir(Orch)], persist[Orch],
                                 name, NoKey, c, rio, wio)
             ELSE [ret |-> c.val, computed |-> TRUE, mem |-> memory[Orch],
                   meta |-> metadata[Orch], dsk |-> disk[cache_dir(Orch)],
                   exc |-> c.exc, key |-> default_key(name)]
        unknown == ~registered(registry, name)
        fails == unknown \/ ctor # "none"
        hit == ~fails /\ ~r.computed
        done == ~fails /\ r.computed /\ c.exc = "none"
        stores == done /\ uc /\ cache_on
    IN
    /\ pc = "idle"
    /\ nops < MaxRuns
    /\ unknown => outcome = Raises
    /\ ctor # "none" => outcome = Raises
    /\ rio = "IOError" => (hit /\ memory[Orch][r.key] = Absent)
    /\ wio = "IOError" => (stores /\ persist[Orch])
    /\ hit => outcome = Raises
    /\ memory' = IF fails THEN memory ELSE [memory EXCEPT ![Orch] = r.mem]
    /\ metadata' = IF fails THEN metadata ELSE [metadata EXCEPT ![Orch] = r.meta]
    /\ disk' = IF fails THEN disk ELSE [disk EXCEPT ![cache_dir(Orch)] = r.dsk]
    /\ stored' = IF stores THEN [stored EXCEPT ![Orch][r.key] = c.val] ELSE stored
    /\ retained' = IF stores THEN [retained EXCEPT ![Orch][r.key] = c.val] ELSE retained
    /\ last' = IF unknown
               THEN Call("run", Orch, name, None, None, "ValueError", FALSE)
               ELSE IF ctor # "none"
               THEN Call("run", Orch, name, None, None, ctor, FALSE)
               ELSE Call("run", Orch, name,
                         IF r.computed THEN outcome ELSE None,
                         r.ret, r.exc, r.computed)
    /\ nops' = nops + 1
    /\ UNCHANGED <<persist, orchVars>>
    /\ UNCHANGED otherVars

(***************************************************************************)
(* BaseAnalyzer.__init__, _apply_config, is_feature_enabled                *)
(***************************************************************************)
\* the analyzer classes an instance is built from; RhetoricAnalyzer declares
\* no dependencies
UnitClasses == AnalyzerNames \cup { <<"rhetoric">> }

\* the feature names of the model: the ones the classes declare, and one no
\* class declares
FlagNames == {"thematic_fingerprint", "generalism_index", "distinctive_keywords",
              "topic_sentiment", "readability", "polarization",
              "party_topic_sentiment", "sentiment_rankings",
              "conformity", "faction_detection",
              "populist", "anti_establishment", "emotional", "institutional",
              "verbose"}

\* the keys of the default_features dict of a class
declared_features(name) ==
    CASE name = <<"identity">>  -> {"thematic_fingerprint", "generalism_index",
                                    "distinctive_keywords"}
      [] name = <<"sentiment">> -> {"topic_sentiment", "readability", "polarization",
                                    "party_topic_sentiment", "sentiment_rankings"}
      [] name = <<"factions">>  -> {"conformity", "faction_detection"}
      [] name = <<"rhetoric">>  -> {"populist", "anti_establishment", "emotional",
                                    "institutional"}
      [] OTHER                  -> {}

\* a dict from feature names to flags, as a function: "absent" for a name
\* that is no key.  Every declared default is True.
ClassDefaults ==
    [n \in UnitClasses |->
        [f \in FlagNames |-> IF f \in declared_features(n) THEN "true" ELSE "absent"]]

\* the key set of such a dict
Keys(d) == { f \in DOMAIN d : d[f] # "absent" }

\* an _apply_config() that takes over every key of the override
apply_config_any(features, feature_config) ==
    [f \in DOMAIN features |->
        IF feature_config[f] # "absent" THEN feature_config[f] ELSE features[f]]

\* BaseAnalyzer._apply_config: for feature, enabled in feature_config.items():
\* if feature in self.features: self.features[feature] = enabled
apply_config(features, feature_config) ==
    [f \in DOMAIN features |->
        IF feature_config[f] # "absent" /\ features[f] # "absent"
        THEN feature_config[f] ELSE features[f]]

\* BaseAnalyzer.is_feature_enabled: self.features.get(feature, False)
is_feature_enabled(features, feature) ==
    IF features[feature] = "absent" THEN "false" ELSE features[feature]

\* what a shared resource argument can be: None, an empty container, a
\* container with content
ResourceArgs == {"None", "empty", "value"}

\* the tests of validate_dependencies on the attributes of an instance:
\* self.embeddings is None, not self.cluster_labels,
\* self.cluster_centroids is None
usable(a) ==
    [d \in Resources |->
        CASE d = "embeddings"        -> a.embeddings # "None"
          [] d = "cluster_labels"    -> a.cluster_labels = "value"
          [] d = "cluster_centroids" -> a.cluster_centroids # "None"]

NoArgs == [d \in Resources |-> "None"]

\* no instance built yet
NoAnalyzer ==
    [name |-> << >>, args |-> NoArgs, embeddings |-> "None",
     cluster_labels |-> "None", cluster_centroids |-> "None",
     feature_config |-> [f \in FlagNames |-> "absent"],
     features |-> [f \in FlagNames |-> "absent"]]

\* BaseAnalyzer.__init__ of the class called name: the attributes of the
\* instance.  args are the three shared resources passed, feature_config is
\* config[name]['features'] of the config passed, which self.config keeps.
new_analyzer(name, defaults, args, feature_config) ==
    [name |-> name, args |-> args,
     embeddings |-> args["embeddings"],
     cluster_labels |-> IF args["cluster_labels"] = "value" THEN "value" ELSE "empty",
     cluster_centroids |-> args["cluster_centroids"],
     feature_config |-> feature_config,
     features |-> apply_config(defaults, feature_config)]

NoAnswer == [op |-> "none", arg |-> "none", ret |-> "none", exc |-> "none"]

\* no instance, the classes as declared
UnitIdle ==
    /\ analyzer = NoAnalyzer
    /\ default_features = ClassDefaults
    /\ answer = NoAnswer

(***************************************************************************)
(* compute_source_output                                                   *)
(***************************************************************************)
\* the partitions: the keys of filename_map
Partitions == {"senate", "camera"}

\* self.cache = None
NoCache == << >>

\* a worker that has not been submitted.  stage is how far the worker is,
\* failed the units whose compute() raised in its run_all, analytics what
\* run_all returned, exc the exception raised in the worker outside run_all,
\* data the partition whose rows and embeddings it was handed, cache the
\* cache of the orchestrator it built, touched the cache files its run_all
\* read or wrote
NoTask == [stage |-> "none", failed |-> {}, analytics |-> << >>, exc |-> "none",
           data |-> "none", cache |-> <<"unbuilt">>, touched |-> {}]

\* no export under way
ExportIdle ==
    /\ tasks = [p \in Partitions |-> NoTask]
    /\ collected = {}
    /\ export = "idle"

(***************************************************************************)
(* assign_topics_by_semantics                                              *)
(***************************************************************************)
\* no call made yet
NoAssignment == [final_assignments |-> << >>, similarities |-> << >>]

\* no taxonomy loaded
TopicsIdle ==
    /\ taxonomy = << >>
    /\ affinity = << >>
    /\ assigned = NoAssignment
    /\ previous = NoAssignment

(***************************************************************************)
(* compute_party_centroids, compute_party_cohesion,                        *)
(* compute_senator_conformity                                              *)
(***************************************************************************)
\* nothing computed yet
NoScores == [centroids |-> << >>, cohesion |-> << >>, profiles |-> {}, done |-> FALSE]

\* no table loaded
ScoresIdle ==
    /\ df = << >>
    /\ scores = NoScores

(***************************************************************************)
(* concurrent compute_cached                                               *)
(***************************************************************************)
\* the two concurrent callers
Callers == {1, 2}

\* a caller that has not called yet
NoCaller == [pc |-> "idle", result |-> None, ret |-> None, exc |-> "none",
             computed |-> FALSE, overlapped |-> FALSE]

RaceIdle ==
    /\ callers = [t \in Callers |-> NoCaller]
    /\ writes = << >>

(***************************************************************************)
(* run_all under every registry order                                      *)
(***************************************************************************)
\* a unit whose constructor returns and whose compute() raises
NoBehaviour == [ctor |-> "none", outcome |-> [repr |-> "raise", id |-> 0]]

OrderIdle ==
    /\ behaviour = [n \in AnalyzerNames |-> NoBehaviour]
    /\ precached = {}

(***************************************************************************)
(* the export pipeline                                                     *)
(***************************************************************************)
\* a file of CACHE_DIR that does not exist
NoCacheFile == [exists |-> FALSE, content |-> << >>]

\* main() is not running
NoMain == [pc |-> "start", force_refetch |-> FALSE, force_reembed |-> FALSE]

\* nothing derived
NoSubset == [df |-> << >>, embeddings |-> << >>]

PipelineIdle ==
    /\ cache_files = [speeches |-> NoCacheFile, embeddings |-> NoCacheFile]
    /\ main_pc = NoMain
    /\ dataset = << >>
    /\ embeddings = << >>
    /\ subset = NoSubset

(***************************************************************************)
(* retry                                                                   *)
(***************************************************************************)
\* what a function does when invoked: it returns, or raises an exception of
\* some type; at numbers the invocation, so that two exceptions differ
Returned(at) == [kind |-> "return", type |-> "success", at |-> at]

Raised(type, at) == [kind |-> "raise", type |-> type, at |-> at]

NoOutcome == [kind |-> "none", type |-> "none", at |-> 0]

\* the wrapper is not running
NoFrame == [pc |-> "idle", attempt |-> 0, last_error |-> NoOutcome, current_delay |-> 0]

\* nothing decorated
NoWrapped == [max_attempts |-> 0, delay |-> 0, backoff_multiplier |-> 0,
              exceptions |-> {}, func |-> << >>]

RetryIdle ==
    /\ wrapped = NoWrapped
    /\ frame = NoFrame
    /\ call_count = 0
    /\ slept = << >>
    /\ finished = NoOutcome

vars == <<memory, metadata, disk, persist, stored, retained, last, nops,
          registry, config, shared, cache_on,
          pc, use_cache, pending, units, results, constructed, computed,
          classes, registrations, analyzer, default_features, answer,
          tasks, collected, export, taxonomy, affinity, assigned, previous,
          df, scores, wrapped, frame, call_count, slept, finished,
          callers, writes,
          behaviour, precached,
          cache_files, main_pc, dataset, embeddings, subset>>

\* no class registered under a name
NoClass == [name |-> << >>, id |-> 0]

\* the registry after the package was imported: every name holds the class
\* the package defines for it
RegistryIdle ==
    /\ classes = [n \in AnalyzerNames |-> [name |-> n, id |-> 1]]
    /\ registrations = [i \in DOMAIN RegistryOrder |->
                          [name |-> RegistryOrder[i], id |-> 1]]

\* the components other than the cache and the orchestrator at rest
OtherIdle == RegistryIdle /\ UnitIdle /\ ExportIdle /\ TopicsIdle /\ ScoresIdle /\ RetryIdle /\ RaceIdle /\ OrderIdle /\ PipelineIdle

\* fresh managers over empty directories
CacheInit ==
    /\ memory = [s \in Sources |-> EmptyMemory]
    /\ metadata = [s \in Sources |-> {}]
    /\ disk = [d \in Dirs |-> EmptyDir]
    /\ stored = [s \in Sources |-> EmptyMemory]
    /\ retained = [s \in Sources |-> EmptyMemory]
    /\ last = NoCall
    /\ nops = 0

\* no run_all under way
NoRun ==
    /\ pc = "idle"
    /\ use_cache = TRUE
    /\ pending = << >>
    /\ units = [n \in AnalyzerNames |-> UnitState("pending", "none")]
    /\ results = [n \in AnalyzerNames |-> NoEntry]
    /\ constructed = {}
    /\ computed = {}

\* the imported registry, no run_all under way
Idle ==
    /\ registry = RegistryOrder
    /\ NoRun

\* the configurations of the model: nothing set, or one unit switched off
\* and one switched on explicitly
Configs ==
    { [n \in AnalyzerNames |-> "unset"],
      [n \in AnalyzerNames |->
          IF n = <<"factions">> THEN "false"
          ELSE IF n = <<"sentiment">> THEN "true" ELSE "unset"] }

\* the cache, the orchestrator and the registry at rest
BaseIdle ==
    /\ CacheInit
    /\ persist = [s \in Sources |-> TRUE]
    /\ Idle
    /\ config = [n \in AnalyzerNames |-> "unset"]
    /\ shared = [d \in Resources |-> TRUE]
    /\ cache_on = TRUE

\* two managers, one per source, constructed with either persist setting; an
\* orchestrator over them that was given every shared resource
Init ==
    /\ CacheInit
    /\ persist \in [Sources -> BOOLEAN]
    /\ Idle
    /\ config = [n \in AnalyzerNames |-> "unset"]
    /\ shared = [d \in Resources |-> TRUE]
    /\ cache_on = TRUE
    /\ OtherIdle

\* AnalyticsOrchestrator.__init__ with any subset of the shared resources,
\* with or without a cache directory; its CacheManager persists
InitRun ==
    /\ CacheInit
    /\ persist = [s \in Sources |-> TRUE]
    /\ Idle
    /\ config \in Configs
    /\ shared \in [Resources -> BOOLEAN]
    /\ cache_on \in BOOLEAN
    /\ OtherIdle

\* CacheManager.has and CacheManager.get as a caller of the manager of s
\* would see them in the current state
Has(s, key) == has(memory[s], disk[cache_dir(s)], persist[s], key)

Resolve(s, key) == get(memory[s], disk[cache_dir(s)], persist[s], key, "ok").ret

(***************************************************************************)
(* SpecCache: the cache API called on the manager of one source            *)
(***************************************************************************)
CacheNext ==
    \/ \E p \in BOOLEAN : NewManager("camera", p)
    \/ \E k \in CacheKeys, io \in IoOutcomes : Get("camera", k, io)
    \/ \E k \in CacheKeys, v \in Values, pa \in PersistArgs, io \in IoOutcomes :
          Set("camera", k, v, pa, io)
    \/ \E pt \in Patterns \cup {NoPattern} : Invalidate("camera", pt)
    \/ ClearMemory("camera")

SpecCache == Init /\ [][CacheNext]_vars

(***************************************************************************)
(* SpecSetGet: values of every serializable kind written and read back on  *)
(* the manager of one source                                               *)
(***************************************************************************)
SetGetKeys == { <<"x", "/", "y">>, <<"x", "_", "y">> }

SetGetValues == { [repr |-> "json", id |-> 1], [repr |-> "numpy", id |-> 2] }

SetGetNext ==
    \/ \E p \in BOOLEAN : NewManager("camera", p)
    \/ \E k \in SetGetKeys, io \in IoOutcomes : Get("camera", k, io)
    \/ \E k \in SetGetKeys, v \in SetGetValues, pa \in PersistArgs,
          io \in IoOutcomes : Set("camera", k, v, pa, io)
    \/ \E pt \in { <<"_">>, NoPattern } : Invalidate("camera", pt)
    \/ ClearMemory("camera")

SpecSetGet == Init /\ [][SetGetNext]_vars

(***************************************************************************)
(* SpecUnit: an analyzer holding the manager of one source calls           *)
(* compute_cached, between invalidations, memory clears and restarts       *)
(***************************************************************************)
UnitNames == { <<"sentiment">> }

UnitKeys == { NoKey, <<"x", "/", "y">> }

UnitOutcomes == { [repr |-> "json", id |-> 1], [repr |-> "numpy", id |-> 2],
                  Opaque, Cyclic, Raises }

UnitPatterns == { <<"sentiment">>, <<"_">>, NoPattern }

UnitNext ==
    \/ \E n \in UnitNames, ck \in UnitKeys, o \in UnitOutcomes,
          rio \in IoOutcomes, wio \in IoOutcomes :
          ComputeCached("camera", n, ck, o, rio, wio)
    \/ \E pt \in UnitPatterns : Invalidate("camera", pt)
    \/ ClearMemory("camera")
    \/ \E p \in BOOLEAN : NewManager("camera", p)

SpecUnit == Init /\ [][UnitNext]_vars

(***************************************************************************)
(* SpecSources: the cache API called on the managers of both sources       *)
(***************************************************************************)
SourcesKeys == { <<"x", "_", "y">>, <<"_", "metadata">> }

SourcesNext ==
    \/ \E s \in Sources, p \in BOOLEAN : NewManager(s, p)
    \/ \E s \in Sources, k \in SourcesKeys : Get(s, k, "ok")
    \/ \E s \in Sources, k \in SourcesKeys, pa \in PersistArgs :
          Set(s, k, [repr |-> "json", id |-> 1], pa, "ok")
    \/ \E s \in Sources, pt \in { <<"x">>, <<"_">>, NoPattern } : Invalidate(s, pt)
    \/ \E s \in Sources : ClearMemory(s)

SpecSources == Init /\ [][SourcesNext]_vars

(***************************************************************************)
(* SpecRun: one run_all of an orchestrator, after at most MaxRuns calls of *)
(* run that may have left results in its cache                             *)
(***************************************************************************)
RunOutcomes == { [repr |-> "json", id |-> 1], Opaque, Cyclic, Raises }

RunNext ==
    \/ \E n \in RunNames, uc \in BOOLEAN,
          ctor \in {"none", "InitError"},
          o \in { [repr |-> "json", id |-> 2], Opaque, Raises } :
          Run(n, uc, ctor, o, "ok", "ok")
    \/ \E uc \in BOOLEAN : RunAllStart(uc)
    \/ CheckDependencies
    \/ \E ctor \in {"none", "InitError"} : Construct(ctor)
    \/ \E o \in RunOutcomes : Compute(o, "ok", "ok")
    \/ RunAllReturn

SpecRun == InitRun /\ [][RunNext]_vars

(***************************************************************************)
(* AnalyzerRegistry.register, all, clear                                   *)
(***************************************************************************)
\* number of register calls explored
MaxRegs == 3

\* the analyzer classes of the model: two classes for every name
Classes == [name : AnalyzerNames, id : {1, 2}]

\* a register() that keeps the class already stored under the name
register_keep_first(reg, cls_of, c) ==
    [reg |-> IF registered(reg, c.name) THEN reg ELSE Append(reg, c.name),
     cls_of |-> IF registered(reg, c.name) THEN cls_of
                ELSE [cls_of EXCEPT ![c.name] = c],
     ret |-> c]

\* AnalyzerRegistry.register(analyzer_class): cls._analyzers[name] =
\* analyzer_class keeps the place of a key the dict already has, and the
\* class is returned
register(reg, cls_of, c) ==
    [reg |-> IF registered(reg, c.name) THEN reg ELSE Append(reg, c.name),
     cls_of |-> [cls_of EXCEPT ![c.name] = c],
     ret |-> c]

\* AnalyzerRegistry.all(): a copy of the dict, as the set of its items
all(reg, cls_of) == { <<reg[i], cls_of[reg[i]]>> : i \in DOMAIN reg }

\* AnalyzerRegistry.names()
names(reg) == reg

\* the register call of the @analyzer decorator
Register(c) ==
    /\ Len(registrations) < MaxRegs
    /\ registry' = register(registry, classes, c).reg
    /\ classes' = register(registry, classes, c).cls_of
    /\ registrations' = Append(registrations, c)
    /\ UNCHANGED <<memory, metadata, disk, persist, stored, retained, last, nops,
                   config, shared, cache_on, pc, use_cache, pending, units,
                   results, constructed, computed, besideRegistry>>

\* AnalyzerRegistry.clear()
Clear ==
    /\ registry # << >>
    /\ registry' = << >>
    /\ classes' = [n \in AnalyzerNames |-> NoClass]
    /\ registrations' = << >>
    /\ UNCHANGED <<memory, metadata, disk, persist, stored, retained, last, nops,
                   config, shared, cache_on, pc, use_cache, pending, units,
                   results, constructed, computed, besideRegistry>>

\* an empty registry, as before the package is imported or after clear()
InitRegistry ==
    /\ CacheInit
    /\ persist = [s \in Sources |-> TRUE]
    /\ NoRun
    /\ config = [n \in AnalyzerNames |-> "unset"]
    /\ shared = [d \in Resources |-> TRUE]
    /\ cache_on = TRUE
    /\ registry = << >>
    /\ classes = [n \in AnalyzerNames |-> NoClass]
    /\ registrations = << >>
    /\ UnitIdle /\ ExportIdle /\ TopicsIdle /\ ScoresIdle /\ RetryIdle /\ RaceIdle /\ OrderIdle /\ PipelineIdle

RegistryNext ==
    \/ \E c \in Classes : Register(c)
    \/ Clear

SpecRegistry == InitRegistry /\ [][RegistryNext]_vars

(***************************************************************************)
(* SpecValidate and SpecFeatures: an analyzer instance is built and asked  *)
(***************************************************************************)
\* analyzer = analyzer_class(df, embeddings, cluster_labels,
\* cluster_centroids, config=...)
NewAnalyzer(name, args, feature_config) ==
    /\ analyzer' = new_analyzer(name, default_features[name], args, feature_config)
    /\ answer' = NoAnswer
    /\ UNCHANGED default_features
    /\ UNCHANGED <<memory, metadata, disk, persist, stored, retained, last, nops,
                   orchVars, besideUnit>>

\* analyzer.validate_dependencies()
ValidateDependencies ==
    /\ analyzer # NoAnalyzer
    /\ answer' = [op |-> "validate_dependencies", arg |-> "none",
                  ret |-> IF validate_dependencies(analyzer.name, usable(analyzer)) = "none"
                          THEN "true" ELSE "none",
                  exc |-> validate_dependencies(analyzer.name, usable(analyzer))]
    /\ UNCHANGED <<analyzer, default_features>>
    /\ UNCHANGED <<memory, metadata, disk, persist, stored, retained, last, nops,
                   orchVars, besideUnit>>

\* analyzer.is_feature_enabled(feature)
IsFeatureEnabled(feature) ==
    /\ analyzer # NoAnalyzer
    /\ answer' = [op |-> "is_feature_enabled", arg |-> feature,
                  ret |-> is_feature_enabled(analyzer.features, feature),
                  exc |-> "none"]
    /\ UNCHANGED <<analyzer, default_features>>
    /\ UNCHANGED <<memory, metadata, disk, persist, stored, retained, last, nops,
                   orchVars, besideUnit>>

\* an override that sets nothing
NoOverride == [f \in FlagNames |-> "absent"]

ValidateNext ==
    \/ \E n \in UnitClasses, args \in [Resources -> ResourceArgs] :
          NewAnalyzer(n, args, NoOverride)
    \/ ValidateDependencies

SpecValidate == Init /\ [][ValidateNext]_vars

\* the overrides of the model: any setting of two declared flags of different
\* classes and of the flag no class declares
Overrides ==
    { [f \in FlagNames |->
          CASE f = "conformity" -> a [] f = "populist" -> b
            [] f = "verbose" -> c [] OTHER -> "absent"] :
      a \in {"absent", "true", "false"}, b \in {"absent", "true", "false"},
      c \in {"absent", "true", "false"} }

FeaturesNext ==
    \/ \E n \in { <<"factions">>, <<"rhetoric">> }, o \in Overrides :
          NewAnalyzer(n, [d \in Resources |-> "value"], o)
    \/ \E f \in {"conformity", "faction_detection", "populist", "verbose"} :
          IsFeatureEnabled(f)

SpecFeatures == Init /\ [][FeaturesNext]_vars

(***************************************************************************)
(* SpecExport: the parent submits one compute_source_output task per       *)
(* partition and collects them as they complete                            *)
(***************************************************************************)
\* a compute_source_output that wraps its assembly in a handler
worker_guarded_assembly(stage) == stage = "assemble"

\* whether the statements of a stage of compute_source_output stand inside a
\* try block: the function has none
worker_guarded(stage) == FALSE

\* an orchestrator that opens one cache directory whatever its source
orchestrator_cache_shared(enable_cache, source) == cache_dir_shared(source)

\* AnalyticsOrchestrator.__init__: self.cache, given a cache directory
orchestrator_cache(enable_cache, source) ==
    IF enable_cache THEN cache_dir(source) ELSE NoCache

\* the cache files a run_all reads or writes: with use_cache those of the
\* keys of its units in the directory of its cache, none otherwise
touched(cache, uc) ==
    IF uc /\ cache # NoCache
    THEN { <<cache, get_path(default_key(n))>> : n \in AnalyzerNames }
    ELSE {}

\* source_orchestrator.run_all(use_cache=False) of a worker in which
\* compute() of the units in failing raises: the mapping returned, or the
\* exception that leaves run_all
run_all(failing) ==
    IF guarded("compute") \/ failing = {}
    THEN [analytics |-> [i \in DOMAIN RegistryOrder |->
                           IF RegistryOrder[i] \in failing
                           THEN ErrorEntry("ComputeError")
                           ELSE ResultEntry([repr |-> "json", id |-> 1])],
          exc |-> "none"]
    ELSE [analytics |-> << >>, exc |-> "ComputeError"]

\* the worker of p after an exception e was raised at a stage (exc keeps
\* it): the worker returns all the same if the stage is guarded, and ends
\* raised otherwise
WorkerRaise(p, stage, e) ==
    IF worker_guarded(stage)
    THEN tasks' = [tasks EXCEPT ![p].stage = "returned", ![p].exc = e]
    ELSE tasks' = [tasks EXCEPT ![p].stage = "raised", ![p].exc = e]

\* the parent submits one task per partition
Submit ==
    /\ export = "idle"
    /\ export' = "collecting"
    /\ tasks' = [p \in Partitions |->
                   [NoTask EXCEPT !.stage = "submitted", !.data = p]]
    /\ collected' = {}
    /\ UNCHANGED <<coreVars, orchVars, besideExport>>

\* the worker filters the speeches and deputies of its partition and picks
\* its rebels
WorkerPrepare(p, e) ==
    /\ tasks[p].stage = "submitted"
    /\ IF e = "none"
       THEN tasks' = [tasks EXCEPT ![p].stage = "prepared"]
       ELSE WorkerRaise(p, "prepare", e)
    /\ UNCHANGED <<collected, export, coreVars, orchVars, besideExport>>

\* the worker builds its own orchestrator and runs every unit
WorkerRunAll(p, failing) ==
    /\ tasks[p].stage = "prepared"
    /\ IF run_all(failing).exc = "none"
       THEN tasks' = [tasks EXCEPT ![p].stage = "analysed",
                                   ![p].cache = orchestrator_cache(FALSE, p),
                                   ![p].touched =
                                      touched(orchestrator_cache(FALSE, p), FALSE),
                                   ![p].failed = failing,
                                   ![p].analytics = run_all(failing).analytics]
       ELSE tasks' = [tasks EXCEPT ![p].stage = "raised",
                                   ![p].cache = orchestrator_cache(FALSE, p),
                                   ![p].touched =
                                      touched(orchestrator_cache(FALSE, p), FALSE),
                                   ![p].failed = failing,
                                   ![p].exc = run_all(failing).exc]
    /\ UNCHANGED <<collected, export, coreVars, orchVars, besideExport>>

\* the worker builds the cluster metadata, the deputies by period and the
\* statistics, and returns (src, source_output, filename)
WorkerAssemble(p, e) ==
    /\ tasks[p].stage = "analysed"
    /\ IF e = "none"
       THEN tasks' = [tasks EXCEPT ![p].stage = "returned"]
       ELSE WorkerRaise(p, "assemble", e)
    /\ UNCHANGED <<collected, export, coreVars, orchVars, besideExport>>

\* the parent takes the result of a task that completed: it keeps the
\* output, or logs the partition and raises the worker's exception again
Collect(p) ==
    /\ export = "collecting"
    /\ p \notin collected
    /\ tasks[p].stage \in {"returned", "raised"}
    /\ collected' = collected \cup {p}
    /\ export' = IF tasks[p].stage = "raised" THEN "aborted" ELSE export
    /\ UNCHANGED <<tasks, coreVars, orchVars, besideExport>>

\* every partition was collected: the export is complete
Complete ==
    /\ export = "collecting"
    /\ collected = Partitions
    /\ export' = "complete"
    /\ UNCHANGED <<tasks, collected, coreVars, orchVars, besideExport>>

ExportNext ==
    \/ Submit
    \/ \E p \in Partitions, e \in {"none", "KeyError"} : WorkerPrepare(p, e)
    \/ \E p \in Partitions, failing \in SUBSET AnalyzerNames : WorkerRunAll(p, failing)
    \/ \E p \in Partitions, e \in {"none", "AssemblyError"} : WorkerAssemble(p, e)
    \/ \E p \in Partitions : Collect(p)
    \/ Complete

SpecExport == Init /\ [][ExportNext]_vars

(***************************************************************************)
(* SpecTopics: assign_topics_by_semantics applied to a matrix and a        *)
(* taxonomy, twice                                                         *)
(***************************************************************************)
\* number of embedding rows
MaxRows == 2

\* the topic ids a taxonomy is made of
TopicIds == {1, 2, 5}

\* the similarity values of the model
SimValues == {0, 1, 2}

\* the taxonomies: the ids of a non-empty subset in any key order
Taxonomies ==
    { t \in UNION { [1..k -> TopicIds] : k \in 1..Cardinality(TopicIds) } :
         \A i, j \in DOMAIN t : i # j => t[i] # t[j] }

\* the ids of a taxonomy
Ids(t) == { t[i] : i \in DOMAIN t }

\* sorted(topic_clusters.keys())
RECURSIVE sorted(_)
sorted(ids) ==
    IF ids = {} THEN << >>
    ELSE LET m == CHOOSE x \in ids : \A y \in ids : x <= y
         IN  <<m>> \o sorted(ids \ {m})

\* cosine_similarity(embeddings, topic_embeddings): column j is the topic
\* whose text was embedded j-th
cosine_similarity(aff, order) ==
    [r \in DOMAIN aff |-> [j \in DOMAIN order |-> aff[r][order[j]]]]

\* an argmax that takes the last of the largest entries
argmax_last(row) ==
    CHOOSE i \in DOMAIN row :
       /\ \A j \in DOMAIN row : row[j] <= row[i]
       /\ \A j \in DOMAIN row : j > i => row[j] < row[i]

\* np.argmax over one row: the first index of the largest entry
argmax(row) ==
    CHOOSE i \in DOMAIN row :
       /\ \A j \in DOMAIN row : row[j] <= row[i]
       /\ \A j \in DOMAIN row : j < i => row[j] < row[i]

\* assign_topics_by_semantics(embeddings, model, topic_clusters)
assign_topics_by_semantics(aff, t) ==
    LET sorted_cluster_ids == sorted(Ids(t))
        similarities == cosine_similarity(aff, sorted_cluster_ids)
    IN  [final_assignments |->
             [r \in DOMAIN aff |-> sorted_cluster_ids[argmax(similarities[r])]],
         similarities |-> similarities]

\* a call of assign_topics_by_semantics on the matrix and the taxonomy
Assign ==
    /\ previous = NoAssignment
    /\ assigned' = assign_topics_by_semantics(affinity, taxonomy)
    /\ previous' = assigned
    /\ UNCHANGED <<taxonomy, affinity>>
    /\ UNCHANGED <<coreVars, orchVars, besideTopics>>

\* any taxonomy and any similarities of 1..MaxRows rows to its topics
InitTopics ==
    /\ BaseIdle
    /\ RegistryIdle /\ UnitIdle /\ ExportIdle /\ ScoresIdle /\ RetryIdle /\ RaceIdle /\ OrderIdle /\ PipelineIdle
    /\ taxonomy \in Taxonomies
    /\ affinity \in UNION { [1..n -> [Ids(taxonomy) -> SimValues]] : n \in 1..MaxRows }
    /\ assigned = NoAssignment
    /\ previous = NoAssignment

TopicsNext == Assign

SpecTopics == InitTopics /\ [][TopicsNext]_vars

(***************************************************************************)
(* SpecScores: the centroid scores of a speech table.  Embeddings have one *)
(* integer coordinate; a real number is a fraction [n, d] of integers with *)
(* d >= 0, and [1, 0] is float('inf').                                     *)
(***************************************************************************)
\* number of rows of the table
MaxDfRows == 3

Speakers == {"s1", "s2"}

\* the group labels of the model, the unknown value among them
Groups == {"A", "B", "Unknown Group"}

\* the embedding coordinates of the model
Coordinates == {0, 1, 2}

SpeechRows == [deputy : Speakers, group : Groups, emb : Coordinates]

Inf == [n |-> 1, d |-> 0]

\* a > b, a = b for two fractions
Gt(a, b) == a.n * b.d > b.n * a.d

Eq(a, b) == a.n * b.d = b.n * a.d

RECURSIVE Sum(_, _)
Sum(f, S) ==
    IF S = {} THEN 0
    ELSE LET x == CHOOSE x \in S : TRUE IN f[x] + Sum(f, S \ {x})

\* the rows selected by a mask on a column
Mask(t, col, v) == { i \in DOMAIN t : t[i][col] = v }

\* t[col].unique(): the values of a column, here with the row of their
\* first appearance
unique(t, col) == { t[i][col] : i \in DOMAIN t }

FirstRow(t, col, v) == CHOOSE i \in Mask(t, col, v) : \A j \in Mask(t, col, v) : i <= j

\* np.mean(embeddings[mask], axis=0)
mean(t, rows) == [n |-> Sum([i \in rows |-> t[i].emb], rows), d |-> Cardinality(rows)]

\* np.linalg.norm(a - b) for two means
norm(a, b) ==
    [n |-> IF a.n * b.d >= b.n * a.d THEN a.n * b.d - b.n * a.d
           ELSE b.n * a.d - a.n * b.d,
     d |-> a.d * b.d]

\* 1.0 / (1.0 + x)
inverse(x) == [n |-> x.d, d |-> x.d + x.n]

\* compute_party_centroids
compute_party_centroids(t) ==
    [party \in unique(t, "group") \ {"Unknown Group"} |->
        mean(t, Mask(t, "group", party))]

\* compute_party_cohesion, without std_distance
compute_party_cohesion(t) ==
    LET centroids == compute_party_centroids(t)
    IN  [party \in (unique(t, "group") \ {"Unknown Group"}) \cap DOMAIN centroids |->
           LET rows == Mask(t, "group", party)
               c == centroids[party]
               avg_distance ==
                  [n |-> Sum([i \in rows |-> norm([n |-> t[i].emb, d |-> 1], c).n], rows),
                   d |-> c.d * Cardinality(rows)]
               cohesion == inverse(avg_distance)
           IN  [cohesion_score |-> cohesion,
                avg_distance |-> avg_distance,
                n_speeches |-> Cardinality(rows),
                interpretation |->
                   IF Gt(cohesion, [n |-> 7, d |-> 10]) THEN "compatto"
                   ELSE IF Gt([n |-> 4, d |-> 10], cohesion) THEN "frammentato"
                   ELSE "moderato"]]

\* a labelling whose bridge test also takes equal scores
faction_label_ties(conformity, cross_affinity) ==
    IF Gt(conformity, [n |-> 7, d |-> 10]) THEN "mainstream"
    ELSE IF Gt(cross_affinity, conformity) \/ Eq(cross_affinity, conformity) THEN "bridge"
    ELSE "maverick"

\* the label of compute_senator_conformity
faction_label(conformity, cross_affinity) ==
    IF Gt(conformity, [n |-> 7, d |-> 10]) THEN "mainstream"
    ELSE IF Gt(cross_affinity, conformity) THEN "bridge"
    ELSE "maverick"

\* the profile compute_senator_conformity builds for one speaker; the scores
\* are kept as computed, before round(..., 4)
profile(t, centroids, speaker) ==
    LET rows == Mask(t, "deputy", speaker)
        party == t[FirstRow(t, "deputy", speaker)].group
        speaker_centroid == mean(t, rows)
        own_distance == IF party \in DOMAIN centroids
                        THEN norm(speaker_centroid, centroids[party]) ELSE Inf
        others == DOMAIN centroids \ {party}
        other_distances == [p \in others |-> norm(speaker_centroid, centroids[p])]
        \* min(other_distances, key=other_distances.get): the first smallest
        \* in the order of the dict, which is that of df[party_col].unique()
        nearest_other ==
           IF others = {} THEN "N/A"
           ELSE CHOOSE p \in others :
                   \A q \in others :
                      \/ Gt(other_distances[q], other_distances[p])
                      \/ /\ Eq(other_distances[q], other_distances[p])
                         /\ FirstRow(t, "group", p) <= FirstRow(t, "group", q)
        nearest_distance == IF others = {} THEN Inf ELSE other_distances[nearest_other]
        conformity == inverse(own_distance)
        cross_affinity == inverse(nearest_distance)
    IN  [speaker |-> speaker, party |-> party, n_speeches |-> Cardinality(rows),
         own_distance |-> own_distance,
         conformity |-> conformity,
         nearest_other_party |-> nearest_other,
         cross_affinity |-> cross_affinity,
         faction_label |-> faction_label(conformity, cross_affinity)]

\* compute_senator_conformity: the rows of the DataFrame returned
compute_senator_conformity(t) ==
    LET centroids == compute_party_centroids(t)
    IN  IF DOMAIN centroids = {} THEN {}
        ELSE { profile(t, centroids, speaker) : speaker \in unique(t, "deputy") }

\* the three functions called on the table
Score ==
    /\ ~scores.done
    /\ scores' = [centroids |-> compute_party_centroids(df),
                  cohesion |-> compute_party_cohesion(df),
                  profiles |-> compute_senator_conformity(df),
                  done |-> TRUE]
    /\ UNCHANGED df
    /\ UNCHANGED <<coreVars, orchVars, besideScores>>

\* any table of 1..MaxDfRows rows
InitScores ==
    /\ BaseIdle
    /\ RegistryIdle /\ UnitIdle /\ ExportIdle /\ TopicsIdle /\ RetryIdle /\ RaceIdle /\ OrderIdle /\ PipelineIdle
    /\ df \in UNION { [1..n -> SpeechRows] : n \in 1..MaxDfRows }
    /\ scores = NoScores

ScoresNext == Score

SpecScores == InitScores /\ [][ScoresNext]_vars

(***************************************************************************)
(* SpecRetry: one call of a function decorated with retry().  The function *)
(* is a script: func[i] is what its i-th invocation does.                  *)
(***************************************************************************)
\* largest max_attempts of the model
MaxAttempts == 3

\* exception types: KeyError is a LookupError, all but KeyboardInterrupt are
\* Exceptions
ExceptionTypes == {"ValueError", "LookupError", "KeyError", "KeyboardInterrupt"}

bases(type) ==
    CASE type = "KeyError" -> {"KeyError", "LookupError", "Exception"}
      [] type = "LookupError" -> {"LookupError", "Exception"}
      [] type = "ValueError" -> {"ValueError", "Exception"}
      [] OTHER -> {type}

\* an except clause that takes every exception
caught_any(e, exceptions) == TRUE

\* except exceptions as e: the exception is an instance of a listed type
caught(e, exceptions) == bases(e.type) \cap exceptions # {}

\* the exceptions arguments of the model, the default (Exception,) first
ExceptionLists == {{"Exception"}, {"ValueError"}, {"LookupError"},
                   {"ValueError", "KeyError"}}

\* delay and backoff_multiplier of the model
Delays == {0, 1}

Multipliers == {1, 2}

Behaviours(at) == {Returned(at)} \cup { Raised(t, at) : t \in ExceptionTypes }

Scripts == { f \in [1..MaxAttempts -> UNION { Behaviours(i) : i \in 1..MaxAttempts }] :
               \A i \in 1..MaxAttempts : f[i].at = i }

\* the wrapper is called: last_error = None, current_delay = delay, and the
\* loop starts with attempt 1
Wrapper ==
    /\ frame.pc = "idle"
    /\ frame' = [pc |-> "call", attempt |-> 1, last_error |-> NoOutcome,
                 current_delay |-> wrapped.delay]
    /\ UNCHANGED <<wrapped, call_count, slept, finished>>
    /\ UNCHANGED <<coreVars, orchVars, besideRetry>>

\* one pass of the loop body up to the sleep: func is invoked; its return
\* value is returned, an exception that is not caught leaves the wrapper, a
\* caught one is kept in last_error and is followed by a sleep unless this
\* was the last attempt
Attempt ==
    /\ frame.pc = "call"
    /\ LET e == wrapped.func[frame.attempt]
       IN  /\ call_count' = call_count + 1
           /\ IF e.kind = "return" \/ ~caught(e, wrapped.exceptions)
              THEN /\ finished' = e
                   /\ frame' = [frame EXCEPT !.pc = "done"]
              ELSE /\ finished' = finished
                   /\ frame' = [frame EXCEPT !.last_error = e,
                                   !.pc = IF frame.attempt < wrapped.max_attempts
                                          THEN "sleep" ELSE "exhausted"]
    /\ UNCHANGED <<wrapped, slept>>
    /\ UNCHANGED <<coreVars, orchVars, besideRetry>>

\* time.sleep(current_delay); current_delay *= backoff_multiplier; next attempt
Sleep ==
    /\ frame.pc = "sleep"
    /\ slept' = Append(slept, frame.current_delay)
    /\ frame' = [frame EXCEPT !.current_delay = frame.current_delay * wrapped.backoff_multiplier,
                              !.attempt = frame.attempt + 1,
                              !.pc = "call"]
    /\ UNCHANGED <<wrapped, call_count, finished>>
    /\ UNCHANGED <<coreVars, orchVars, besideRetry>>

\* raise last_error after the loop
RaiseLastError ==
    /\ frame.pc = "exhausted"
    /\ finished' = frame.last_error
    /\ frame' = [frame EXCEPT !.pc = "done"]
    /\ UNCHANGED <<wrapped, call_count, slept>>
    /\ UNCHANGED <<coreVars, orchVars, besideRetry>>

\* any decorated function with max_attempts >= 1
InitRetry ==
    /\ BaseIdle
    /\ RegistryIdle /\ UnitIdle /\ ExportIdle /\ TopicsIdle /\ ScoresIdle /\ RaceIdle /\ OrderIdle /\ PipelineIdle
    /\ wrapped \in [max_attempts : 1..MaxAttempts, delay : Delays,
                    backoff_multiplier : Multipliers, exceptions : ExceptionLists,
                    func : Scripts]
    /\ frame = NoFrame
    /\ call_count = 0
    /\ slept = << >>
    /\ finished = NoOutcome

RetryNext ==
    \/ Wrapper
    \/ Attempt
    \/ Sleep
    \/ RaiseLastError

SpecRetry == InitRetry /\ [][RetryNext]_vars

(***************************************************************************)
(* Claims about the CacheManager and compute_cached                        *)
(***************************************************************************)

\* C2 as stated: once a completed compute() has stored a result under a key,
\* no later compute_cached call on that key invokes compute() again until the
\* key is named by an invalidate() call.
C2_AtMostOncePerKey ==
    [][ (last'.op = "compute_cached" /\ nops' = nops + 1
         /\ stored[last'.src][last'.key] # Absent)
        => ~last'.computed ]_vars

\* C2, amended: a compute_cached call on a key that does not resolve calls
\* compute() and, when compute() completes, has stored its result under the
\* key and returns it; a call on a key that resolves does not call
\* compute(); and from the store until the key is named by an invalidate()
\* call or the manager's memory is cleared, every call returns the stored
\* value itself without calling compute().
C2_AtMostOnceWhileRetained ==
    [][ (last'.op = "compute_cached" /\ nops' = nops + 1)
        => LET s == last'.src
               k == last'.key
           IN  /\ retained[s][k] # Absent
                    => /\ ~last'.computed
                       /\ last'.exc = "none"
                       /\ last'.ret = retained[s][k]
               /\ Has(s, k) => ~last'.computed
               /\ ~Has(s, k)
                    => /\ last'.computed
                       /\ last'.val # Raises
                            => /\ memory'[s][k] = last'.val
                               /\ last'.exc = "none" => last'.ret = last'.val ]_vars

\* a second compute_cached call on the key just computed returned the stored
\* value without computing
C2_Witness ==
    /\ last.op = "compute_cached"
    /\ ~last.computed
    /\ last.prev.op = "compute_cached"
    /\ last.prev.key = last.key
    /\ last.prev.val \in Values
    /\ last.ret = last.prev.val

\* C3: a compute_cached call that returns never returns None, whatever the
\* state of the cache.
C3_AlwaysAResult ==
    (last.op = "compute_cached" /\ last.exc = "none") => last.ret # None

\* C4: get(k) called right after set(k, v) on the same manager, v being
\* JSON-serializable, returns normally a value equal to v up to a JSON round
\* trip.
C4_SetThenGet ==
    ( /\ last.op = "get"
      /\ last.prev.op = "set"
      /\ last.prev.src = last.src
      /\ last.prev.key = last.key
      /\ last.prev.val \in Serializable )
    => /\ last.exc = "none"
       /\ JsonRoundTrip(last.ret) = JsonRoundTrip(last.prev.val)

\* a value holding numpy data was written, with a failed write to disk, and
\* read back at once
C4_Witness ==
    /\ last.op = "get"
    /\ last.prev.op = "set"
    /\ last.prev.key = last.key
    /\ last.prev.val.repr = "numpy"
    /\ last.ret = last.prev.val
    /\ disk[cache_dir(last.src)][get_path(last.key)] = NoFile
    /\ persist[last.src]

\* C5: after invalidate(pattern) with a pattern, every key containing the
\* pattern is a miss for has and get, and every other key resolves for has
\* and get exactly as before the call.
C5_InvalidateExact ==
    [][ \A s \in Sources :
        (last'.op = "invalidate" /\ last'.src = s /\ last'.key # NoPattern
         /\ nops' = nops + 1)
        => \A k \in AllKeys :
              IF Contains(k, last'.key)
              THEN ~Has(s, k)' /\ Resolve(s, k)' = None
              ELSE /\ Has(s, k)' = Has(s, k)
                   /\ Resolve(s, k)' = Resolve(s, k) ]_vars

\* C6: after invalidate(None) no key resolves any more, neither for has and
\* get nor in memory nor on disk.
C6_InvalidateAll ==
    (last.op = "invalidate" /\ last.key = NoPattern)
    => \A k \in AllKeys :
          /\ ~Has(last.src, k)
          /\ Resolve(last.src, k) = None
          /\ memory[last.src][k] = Absent
          /\ disk[cache_dir(last.src)][get_path(k)] = NoFile

\* C7: a set or an invalidate on the manager of one source changes what has
\* and get return for no key on the manager of another source.
C7_SourcesIsolated ==
    [][ (last'.op \in {"set", "invalidate"} /\ nops' = nops + 1)
        => \A b \in Sources \ {last'.src} : \A k \in AllKeys :
              /\ Has(b, k)' = Has(b, k)
              /\ Resolve(b, k)' = Resolve(b, k) ]_vars

\* a key persisted under "camera" is a miss for a persisting manager of
\* "senato"
C7_Witness ==
    /\ last.op = "set"
    /\ last.src = "camera"
    /\ disk[cache_dir("camera")][get_path(last.key)] # NoFile
    /\ Has("camera", last.key)
    /\ persist["senato"]
    /\ ~Has("senato", last.key)
    /\ Resolve("senato", last.key) = None

\* C8: no get and no set lets an exception out, and a set leaves its value
\* in memory.
C8_NoCacheFailureEscapes ==
    last.op \in {"get", "set"}
    => /\ last.exc = "none"
       /\ last.op = "set" => memory[last.src][last.key] = last.val

(***************************************************************************)
(* Claims about AnalyticsOrchestrator.run_all                              *)
(***************************************************************************)

\* C1  An exception raised while constructing or computing one enabled unit
\* never aborts run_all: the run never ends by that exception, and when it
\* returns, the entry of the unit that raised is {"error": <message>} while
\* every other enabled unit that the dependency filter lets through was
\* constructed and run and has its own entry, a result when nothing was
\* raised for it, wherever in the iteration order the failing unit stands.
C1_FailureIsolated ==
    /\ pc # "aborted"
    /\ pc = "done" =>
         \A n \in AnalyzerNames :
            is_enabled(config, n) =>
               /\ units[n].exc # "none" =>
                     /\ results[n].kind = "error"
                     /\ results[n].msg = units[n].exc
               /\ (\A d \in {"embeddings", "cluster_centroids"} :
                       Declares(n, d) => shared[d]) =>
                     /\ n \in constructed
                     /\ units[n].status \in {"done", "failed"}
                     /\ units[n].exc = "none" =>
                           /\ results[n].kind = "result"
                           /\ results[n].val # None

\* a run that returned with the unit in the middle of the order failed in its
\* computation, the unit before it and the unit after it holding results
C1_Witness ==
    /\ pc = "done"
    /\ units[<<"sentiment">>] = UnitState("failed", "ComputeError")
    /\ results[<<"sentiment">>] = ErrorEntry("ComputeError")
    /\ results[<<"identity">>].kind = "result"
    /\ results[<<"factions">>].kind = "result"

\* C9  run_all skips every enabled unit that declares embeddings (resp.
\* cluster_centroids) when the orchestrator was given no embedding matrix
\* (resp. centroid matrix): at no point of the run is the unit constructed or
\* its compute() called, it never has an entry, result or error, it ends
\* skipped, and run_all does not fail.
C9_SkippedWithoutMatrix ==
    /\ pc # "aborted"
    /\ \A n \in AnalyzerNames :
          \A d \in {"embeddings", "cluster_centroids"} :
             (is_enabled(config, n) /\ Declares(n, d) /\ ~shared[d]) =>
                /\ n \notin constructed
                /\ n \notin computed
                /\ results[n] = NoEntry
                /\ pc = "done" => units[n].status = "skipped"

\* a run that returned without an embedding matrix: the two units declaring
\* it were skipped, the third has its result
C9_Witness ==
    /\ pc = "done"
    /\ ~shared["embeddings"]
    /\ units[<<"factions">>].status = "skipped"
    /\ units[<<"identity">>].status = "skipped"
    /\ results[<<"factions">>] = NoEntry
    /\ results[<<"sentiment">>].kind = "result"

C11_ExactlyTheEnabled ==
    /\ \A n \in AnalyzerNames :
          /\ config[n] = "false" =>
                /\ n \notin constructed
                /\ n \notin computed
                /\ results[n] = NoEntry
          /\ results[n] # NoEntry =>
                /\ \E i \in DOMAIN registry : registry[i] = n
                /\ config[n] \in {"unset", "true"}
          /\ (pc = "done" /\ config[n] \in {"unset", "true"}) =>
                units[n].status \in {"skipped", "done", "failed"}
    /\ pc \in {"running", "done"} =>
          \A i, j \in DOMAIN registry :
             (i < j /\ config[registry[i]] # "false"
                    /\ units[registry[j]].status \notin {"pending", "disabled"}) =>
                units[registry[i]].status \in {"skipped", "done", "failed"}

\* a run that returned under a configuration switching factions off and
\* sentiment explicitly on: factions was left alone, the other two hold results
C11_Witness ==
    /\ pc = "done"
    /\ config[<<"factions">>] = "false"
    /\ config[<<"sentiment">>] = "true"
    /\ <<"factions">> \notin constructed
    /\ results[<<"factions">>] = NoEntry
    /\ results[<<"identity">>].kind = "result"
    /\ results[<<"sentiment">>].kind = "result"

\* C12  run(name) with a name that is not a key of the registry raises
\* ValueError, whatever constructing or computing a unit would have done, with
\* no compute() called and the registry and the cache (memory, metadata,
\* files) exactly as before.  For a registered name a run that returns
\* yields the fresh result of that unit's compute() when it computed, and
\* otherwise the value the unit's key resolved to in the cache before the call.
C12_RunUnknownOrResult ==
    [][ (last'.op = "run" /\ nops' = nops + 1)
        => IF \E i \in DOMAIN registry : registry[i] = last'.key
           THEN last'.exc = "none" =>
                   IF last'.computed
                   THEN /\ last'.val \in Values
                        /\ last'.ret = last'.val
                   ELSE /\ cache_on
                        /\ Has(Orch, default_key(last'.key))
                        /\ last'.ret = Resolve(Orch, default_key(last'.key))
           ELSE /\ last'.exc = "ValueError"
                /\ ~last'.computed
                /\ last'.ret = None
                /\ registry' = registry
                /\ memory' = memory
                /\ metadata' = metadata
                /\ disk' = disk ]_vars

\* a run of an unknown name that failed on an orchestrator whose cache holds
\* the result of the run before it
C12_Witness ==
    /\ last.op = "run"
    /\ last.key = <<"unknown">>
    /\ last.exc = "ValueError"
    /\ last.prev.op = "run"
    /\ last.prev.key = <<"sentiment">>
    /\ last.prev.exc = "none"
    /\ memory[Orch][default_key(<<"sentiment">>)] \in Values

(***************************************************************************)
(* Claims about the AnalyzerRegistry                                       *)
(***************************************************************************)

\* C13  After any sequence of register calls the registry holds exactly the
\* names registered, each once and each mapped to the class most recently
\* registered under it, so that the size of all() is the number of distinct
\* names registered; and a register call for a class the registry already
\* holds under that name changes nothing, while one for another class under
\* a held name replaces the class and leaves the size as it is.
C13_LastRegistrationWins ==
    /\ [](/\ \A n \in AnalyzerNames :
                registered(registry, n) <=>
                   \E i \in DOMAIN registrations : registrations[i].name = n
          /\ \A i \in DOMAIN registrations :
                (\A j \in DOMAIN registrations :
                    j > i => registrations[j].name # registrations[i].name)
                => <<registrations[i].name, registrations[i]>> \in all(registry, classes)
          /\ Cardinality(all(registry, classes)) =
                Cardinality({ registrations[i].name : i \in DOMAIN registrations })
          /\ Len(names(registry)) = Cardinality(all(registry, classes)))
    /\ [][ \A c \in Classes :
             (registrations' = Append(registrations, c)
              /\ registered(registry, c.name))
             => /\ Cardinality(all(registry, classes)') = Cardinality(all(registry, classes))
                /\ classes'[c.name] = c
                /\ classes[c.name] = c => (registry' = registry /\ classes' = classes)
         ]_vars

\* a name registered twice with different classes and holding the second,
\* next to another name: three calls, two entries
C13_Witness ==
    /\ Len(registrations) = 3
    /\ registrations[1] = [name |-> <<"sentiment">>, id |-> 1]
    /\ registrations[2] = [name |-> <<"identity">>, id |-> 1]
    /\ registrations[3] = [name |-> <<"sentiment">>, id |-> 2]
    /\ all(registry, classes) =
          { << <<"sentiment">>, [name |-> <<"sentiment">>, id |-> 2] >>,
            << <<"identity">>, [name |-> <<"identity">>, id |-> 1] >> }

(***************************************************************************)
(* Claims about BaseAnalyzer                                               *)
(***************************************************************************)

\* C14 (as stated)  validate_dependencies raises ValueError if and only if
\* some declared dependency names a shared resource that was not supplied at
\* construction, and returns True otherwise.
C14_FailsIffNotSupplied ==
    answer.op = "validate_dependencies" =>
       /\ answer.exc = "ValueError" <=>
             \E d \in Resources :
                Declares(analyzer.name, d) /\ analyzer.args[d] = "None"
       /\ answer.exc = "none" <=> answer.ret = "true"

\* C14 (amended)  validate_dependencies raises ValueError if and only if some
\* declared dependency names a shared resource that was passed as None at
\* construction or, for cluster_labels, as an empty mapping; otherwise it
\* returns True.  A unit declaring nothing never fails, and a resource that
\* is missing but not declared never makes it fail.
C14_FailsIffUnusable ==
    answer.op = "validate_dependencies" =>
       /\ answer.exc \in {"none", "ValueError"}
       /\ answer.exc = "ValueError" <=>
             \E d \in Resources :
                /\ \E i \in DOMAIN get_dependencies(analyzer.name) :
                      get_dependencies(analyzer.name)[i] = d
                /\ \/ analyzer.args[d] = "None"
                   \/ d = "cluster_labels" /\ analyzer.args[d] = "empty"
       /\ answer.exc = "none" <=> answer.ret = "true"
       /\ get_dependencies(analyzer.name) = << >> => answer.exc = "none"

\* the unit that only declares embeddings passed validation without cluster
\* labels and centroids
C14_Witness ==
    /\ answer.op = "validate_dependencies"
    /\ analyzer.name = <<"factions">>
    /\ analyzer.args["embeddings"] = "value"
    /\ analyzer.args["cluster_labels"] = "None"
    /\ analyzer.args["cluster_centroids"] = "None"
    /\ answer.ret = "true"

\* C15  After construction the feature flags of a unit are exactly the keys
\* of the defaults its class declares; each flag is the override of
\* config[name]['features'] when that mapping has the key and the declared
\* default otherwise; an override under a name outside the defaults adds no
\* flag; is_feature_enabled answers the flag for a declared name and False
\* for any other name, without raising; and the defaults of the classes stay
\* as declared.
C15_FlagsFromDefaults ==
    /\ default_features = ClassDefaults
    /\ analyzer # NoAnalyzer =>
          /\ Keys(analyzer.features) = declared_features(analyzer.name)
          /\ \A f \in declared_features(analyzer.name) :
                analyzer.features[f] =
                   IF analyzer.feature_config[f] # "absent"
                   THEN analyzer.feature_config[f]
                   ELSE ClassDefaults[analyzer.name][f]
          /\ answer.op = "is_feature_enabled" =>
                /\ answer.exc = "none"
                /\ answer.ret = IF answer.arg \in declared_features(analyzer.name)
                                THEN analyzer.features[answer.arg]
                                ELSE "false"

\* an instance built with an override that switches a declared flag off and
\* sets two names its class does not declare, asked for one of those
C15_Witness ==
    /\ analyzer.name = <<"factions">>
    /\ analyzer.feature_config["conformity"] = "false"
    /\ analyzer.feature_config["verbose"] = "true"
    /\ analyzer.feature_config["populist"] = "true"
    /\ analyzer.features["conformity"] = "false"
    /\ analyzer.features["faction_detection"] = "true"
    /\ answer = [op |-> "is_feature_enabled", arg |-> "verbose",
                 ret |-> "false", exc |-> "none"]

(***************************************************************************)
(* Claims about the per-partition fan-out                                  *)
(***************************************************************************)

\* C16  An exception raised while a worker assembles the output of its
\* partition is not contained: the worker ends raised with that exception,
\* the export is never complete with such a partition, and it is aborted as
\* soon as the parent has collected it.  An exception raised by compute() of
\* a unit during the worker's run_all is contained: it never ends the worker,
\* which goes on with an analytics mapping holding an error entry for that
\* unit and a result for every other unit.
C16_PartitionFailureAborts ==
    \A p \in Partitions :
       /\ tasks[p].exc # "none" =>
             /\ tasks[p].stage = "raised"
             /\ export # "complete"
             /\ p \in collected => export = "aborted"
       /\ tasks[p].stage = "raised" => tasks[p].exc \in {"KeyError", "AssemblyError"}
       /\ export = "complete" => tasks[p].stage = "returned"
       /\ tasks[p].stage \in {"analysed", "returned"} =>
             \A i \in DOMAIN RegistryOrder :
                tasks[p].analytics[i].kind =
                   IF RegistryOrder[i] \in tasks[p].failed THEN "error" ELSE "result"

\* an export aborted by the assembly failure of one partition whose run_all
\* had contained a failing unit, the other partition having returned
C16_Witness ==
    /\ export = "aborted"
    /\ tasks["senate"].stage = "raised"
    /\ tasks["senate"].exc = "AssemblyError"
    /\ tasks["senate"].failed = { <<"sentiment">> }
    /\ tasks["senate"].analytics[2].kind = "error"
    /\ tasks["camera"].stage = "returned"
    /\ collected = Partitions

(***************************************************************************)
(* Claims about the topic assignment                                       *)
(***************************************************************************)

C18_UnknownGroupExcluded ==
    scores.done =>
       /\ "Unknown Group" \notin DOMAIN scores.centroids
       /\ "Unknown Group" \notin DOMAIN scores.cohesion
       /\ \A g \in DOMAIN scores.centroids :
             /\ g \in {"A", "B"}
             /\ scores.centroids[g].d = Cardinality({ i \in DOMAIN df : df[i].group = g })
             /\ scores.centroids[g].n =
                   Sum([i \in DOMAIN df |-> IF df[i].group = g THEN df[i].emb ELSE 0],
                       DOMAIN df)
       /\ \A q \in scores.profiles : q.party # "Unknown Group"

C20_RetryUntilSettled ==
    frame.pc = "done" =>
       LET listed(i) == /\ wrapped.func[i].kind = "raise"
                        /\ \E b \in wrapped.exceptions :
                              \/ b = "Exception" /\ wrapped.func[i].type # "KeyboardInterrupt"
                              \/ b = wrapped.func[i].type
                              \/ b = "LookupError" /\ wrapped.func[i].type = "KeyError"
           settled == { i \in 1..wrapped.max_attempts : ~listed(i) }
       IN  /\ wrapped.max_attempts >= 1
           /\ IF settled # {}
              THEN LET n == CHOOSE i \in settled : \A j \in settled : i <= j
                   IN  /\ call_count = n
                       /\ finished = wrapped.func[n]
              ELSE /\ call_count = wrapped.max_attempts
                   /\ finished = wrapped.func[wrapped.max_attempts]
           /\ Len(slept) = call_count - 1

\* three attempts: a caught KeyError under (LookupError,), a second one, and
\* a third that is the exception raised, after two sleeps
C20_Witness ==
    /\ frame.pc = "done"
    /\ wrapped.max_attempts = 3
    /\ wrapped.exceptions = {"LookupError"}
    /\ call_count = 3
    /\ finished = Raised("KeyError", 3)
    /\ slept = <<1, 2>>

(***************************************************************************)
(* Further claims about the CacheManager                                   *)
(***************************************************************************)

\* C21  After any sequence of set (with any persist override), get,
\* invalidate and clear_memory on one CacheManager a key has one
\* authoritative value: whenever the key is in memory and its file is on
\* disk, the file holds the memory value up to JSON normalization, so that
\* get(k) returns the same value before and after clear_memory.
C21_OneAuthoritativeValue ==
    \A k \in CacheKeys :
       LET s == "camera"
           before == Resolve(s, k)
           after == get(clear_memory(memory[s]), disk[cache_dir(s)], persist[s],
                        k, "ok").ret
       IN  (/\ memory[s][k] # Absent
            /\ persist[s]
            /\ disk[cache_dir(s)][get_path(k)] # NoFile)
           => after = NumpyEncoder(before)

(***************************************************************************)
(* SpecSequence: one run_all on a fresh orchestrator, every step of its    *)
(* loop taken in the end (the interpreter goes on, and each constructor    *)
(* and each compute() terminates)                                          *)
(***************************************************************************)
SequenceNext ==
    \/ \E uc \in BOOLEAN : RunAllStart(uc)
    \/ CheckDependencies
    \/ \E ctor \in {"none", "InitError"} : Construct(ctor)
    \/ \E o \in RunOutcomes : Compute(o, "ok", "ok")
    \/ RunAllReturn

SpecSequence ==
    /\ InitRun
    /\ [][SequenceNext]_vars
    /\ WF_vars(CheckDependencies)
    /\ WF_vars(\E ctor \in {"none", "InitError"} : Construct(ctor))
    /\ WF_vars(\E o \in RunOutcomes : Compute(o, "ok", "ok"))
    /\ WF_vars(RunAllReturn)

\* the terminal states of a unit within a run
Terminal == {"done", "failed", "skipped"}

\* the position of a registered name in the registry iteration order
Position(n) == CHOOSE i \in DOMAIN registry : registry[i] = n

(***************************************************************************)
(* Claims about the order of a run                                         *)
(***************************************************************************)

\* C22  Within one run_all the units run one after the other in registry
\* iteration order, each enabled unit going pending -> dependency-checked ->
\* computing -> done or failed (or skipped at its dependency check): only
\* the unit at the head of the order changes state, it leaves pending only
\* when every enabled unit before it is terminal and every one after it is
\* still pending, it computes only from dependency-checked, a terminal state
\* is never left, and, every step terminating, run_all returns with every
\* enabled unit in one terminal state.
C22_SequentialLifecycle ==
    /\ [][pc = "running" =>
            \A n \in AnalyzerNames :
               units'[n] # units[n] =>
                  /\ pending # << >> /\ n = Head(pending)
                  /\ <<units[n].status, units'[n].status>> \in
                        { <<"pending", "dependency-checked">>,
                          <<"pending", "skipped">>,
                          <<"dependency-checked", "computing">>,
                          <<"dependency-checked", "failed">>,
                          <<"computing", "done">>,
                          <<"computing", "failed">> }
                  /\ \A m \in AnalyzerNames \ {n} :
                        units[m].status # "disabled" =>
                           IF Position(m) < Position(n)
                           THEN units[m].status \in Terminal
                           ELSE units[m].status = "pending"]_vars
    /\ (pc = "running") ~>
          (/\ pc = "done"
           /\ pending = << >>
           /\ \A n \in AnalyzerNames :
                 units[n].status \in Terminal \cup {"disabled"})

\* a run that returned with the first unit skipped, the second failed in its
\* computation and the third done
C22_Witness ==
    /\ pc = "done"
    /\ units[<<"identity">>].status = "skipped"
    /\ units[<<"sentiment">>] = UnitState("failed", "ComputeError")
    /\ units[<<"factions">>].status = "done"
    /\ <<"factions">> \in computed

(***************************************************************************)
(* SpecRace: two threads call compute_cached() for the same key on         *)
(* analyzers that hold one CacheManager; every statement of compute_cached *)
(* and of set() is a step of its own.                                      *)
(***************************************************************************)
\* the key both callers ask for
RaceKey == default_key(<<"sentiment">>)

\* a set() that keeps an entry that is already in memory
set_memory_default(mem, key, value) ==
    IF mem[key] # Absent THEN mem ELSE [mem EXCEPT ![key] = value]

\* self._memory[key] = value
set_memory(mem, key, value) == [mem EXCEPT ![key] = value]

\* compute_cached is entered
CallStart(t) ==
    /\ callers[t].pc = "idle"
    /\ callers' = [callers EXCEPT ![t].pc = "check"]
    /\ UNCHANGED <<coreVars, orchVars, besideRace, writes>>

\* if self.cache and self.cache.has(key)
CallCheck(t) ==
    /\ callers[t].pc = "check"
    /\ callers' = [callers EXCEPT ![t].pc =
                      IF Has("camera", RaceKey) THEN "hit" ELSE "miss"]
    /\ UNCHANGED <<coreVars, orchVars, besideRace, writes>>

\* return self.cache.get(key)
CallGet(t) ==
    LET r == get(memory["camera"], disk[cache_dir("camera")], persist["camera"],
                 RaceKey, "ok") IN
    /\ callers[t].pc = "hit"
    /\ memory' = [memory EXCEPT !["camera"] = r.mem]
    /\ callers' = [callers EXCEPT ![t].pc = "done", ![t].ret = r.ret,
                                  ![t].exc = r.exc]
    /\ UNCHANGED <<metadata, disk, persist, stored, retained, last, nops>>
    /\ UNCHANGED <<orchVars, besideRace, writes>>

\* result = self.compute()
CallCompute(t, outcome) ==
    LET c == compute(<<"sentiment">>, shared, outcome) IN
    /\ callers[t].pc = "miss"
    /\ callers' = [callers EXCEPT ![t].computed = TRUE,
                                  ![t].result = c.val,
                                  ![t].exc = c.exc,
                                  ![t].pc = IF c.exc = "none" THEN "store" ELSE "done"]
    /\ UNCHANGED <<coreVars, orchVars, besideRace, writes>>

\* self.cache.set(key, result), its first half: the memory entry and the
\* metadata; without persistence set() is over and the result is returned
CallSetMemory(t) ==
    /\ callers[t].pc = "store"
    /\ memory' = [memory EXCEPT !["camera"] =
                     set_memory(memory["camera"], RaceKey, callers[t].result)]
    /\ metadata' = [metadata EXCEPT !["camera"] = metadata["camera"] \cup {RaceKey}]
    /\ writes' = Append(writes, <<t, "memory">>)
    /\ callers' = [callers EXCEPT
                      ![t].pc = IF persist["camera"] THEN "open" ELSE "done",
                      ![t].ret = IF persist["camera"] THEN None ELSE callers[t].result]
    /\ UNCHANGED <<disk, persist, stored, retained, last, nops>>
    /\ UNCHANGED <<orchVars, besideRace>>

\* open(path, 'w'): the file is created or cut to length zero; a caller that
\* holds the file open at this moment and this one write over each other
CallOpen(t) ==
    LET busy == \E u \in Callers \ {t} : callers[u].pc = "dump" IN
    /\ callers[t].pc = "open"
    /\ disk' = [disk EXCEPT ![cache_dir("camera")][get_path(RaceKey)] = Truncated]
    /\ callers' = [u \in Callers |->
                     IF u = t THEN [callers[u] EXCEPT !.pc = "dump", !.overlapped = busy]
                     ELSE IF callers[u].pc = "dump"
                          THEN [callers[u] EXCEPT !.overlapped = TRUE]
                          ELSE callers[u]]
    /\ UNCHANGED <<memory, metadata, persist, stored, retained, last, nops>>
    /\ UNCHANGED <<orchVars, besideRace, writes>>

\* json.dump and the close of the file, then "return result".  text is what
\* the file holds afterwards: the caller's JSON text, or, when two callers
\* had the file open together, possibly a mix of both texts that does not
\* parse
CallDump(t, text) ==
    /\ callers[t].pc = "dump"
    /\ text \in IF callers[t].overlapped
                THEN {json_dump(callers[t].result).text, Truncated}
                ELSE {json_dump(callers[t].result).text}
    /\ disk' = [disk EXCEPT ![cache_dir("camera")][get_path(RaceKey)] = text]
    /\ writes' = Append(writes, <<t, "file">>)
    /\ callers' = [callers EXCEPT ![t].pc = "done", ![t].ret = callers[t].result]
    /\ UNCHANGED <<memory, metadata, persist, stored, retained, last, nops>>
    /\ UNCHANGED <<orchVars, besideRace>>

\* caller t computes the value t, or its compute() raises
RaceNext ==
    \E t \in Callers :
       \/ CallStart(t)
       \/ CallCheck(t)
       \/ CallGet(t)
       \/ \E o \in { [repr |-> "json", id |-> t], Raises } : CallCompute(t, o)
       \/ CallSetMemory(t)
       \/ CallOpen(t)
       \/ \E text \in JsonValues \cup {Truncated} : CallDump(t, text)

SpecRace == Init /\ [][RaceNext]_vars

\* the caller that made the last write of a kind
LastWriter(kind) ==
    LET idx == { i \in DOMAIN writes : writes[i][2] = kind }
    IN  writes[CHOOSE i \in idx : \A j \in idx : j <= i][1]

(***************************************************************************)
(* Claims about concurrent callers                                         *)
(***************************************************************************)

\* C23  compute_cached is not single-flight: two callers that ask for the
\* same uncached key of one shared cache can both find a miss, both invoke
\* compute() and both write; whenever both have done so and finished, the
\* memory entry is the value of the later memory write and the file is the
\* one the later writer closed (the text of its value, or an unparsable mix
\* when the two had the file open together).
C23_BothComputeLaterWins ==
    (/\ \A t \in Callers : callers[t].pc = "done" /\ callers[t].computed
                           /\ callers[t].exc = "none")
    => /\ Len(writes) = IF persist["camera"] THEN 4 ELSE 2
       /\ memory["camera"][RaceKey] = callers[LastWriter("memory")].result
       /\ \A t \in Callers : callers[t].ret = callers[t].result
       /\ persist["camera"] =>
             LET f == disk[cache_dir("camera")][get_path(RaceKey)]
                 w == LastWriter("file")
             IN  \/ f = json_dump(callers[w].result).text
                 \/ f = Truncated /\ callers[w].overlapped

\* both callers found a miss, both computed, caller 1 wrote first and
\* caller 2 after it: memory and file hold the value of caller 2
C23_Witness ==
    /\ \A t \in Callers : callers[t].pc = "done" /\ callers[t].computed
    /\ persist["camera"]
    /\ writes = << <<1, "memory">>, <<1, "file">>, <<2, "memory">>, <<2, "file">> >>
    /\ callers[1].ret = [repr |-> "json", id |-> 1]
    /\ callers[2].ret = [repr |-> "json", id |-> 2]
    /\ memory["camera"][RaceKey] = [repr |-> "json", id |-> 2]
    /\ disk[cache_dir("camera")][get_path(RaceKey)] = [repr |-> "json", id |-> 2]
    /\ Resolve("camera", RaceKey) = [repr |-> "json", id |-> 2]

(***************************************************************************)
(* Further claims about the per-partition fan-out                          *)
(***************************************************************************)

\* C24  The workers of the fan-out share no mutable state: each worker was
\* handed the rows and embeddings of its own partition and builds its own
\* orchestrator, whose cache is disabled or is the scope of its own
\* partition, and at no point of any interleaving have two workers read or
\* written the same cache file.
C24_WorkersShareNothing ==
    \A p \in Partitions : \A q \in Partitions \ {p} :
       /\ tasks[p].stage # "none" => tasks[p].data = p
       /\ tasks[p].cache # <<"unbuilt">> =>
             \/ tasks[p].cache = NoCache
             \/ /\ tasks[p].cache = <<"analyzers", p>>
                /\ tasks[p].cache # tasks[q].cache
       /\ tasks[p].touched \cap tasks[q].touched = {}

\* both workers have run every unit while neither was collected: each was
\* built without a cache and touched no file
C24_Witness ==
    /\ collected = {}
    /\ \A p \in Partitions :
          /\ tasks[p].stage = "analysed"
          /\ tasks[p].data = p
          /\ tasks[p].cache = NoCache
          /\ tasks[p].touched = {}
          /\ tasks[p].analytics # << >>

(***************************************************************************)
(* SpecOrder: one run_all under every iteration order of the registry,     *)
(* over a cache directory in which an earlier process may have left the    *)
(* results of some units                                                   *)
(***************************************************************************)
\* the iteration orders of the three registered classes
Orders ==
    { o \in [1..3 -> AnalyzerNames] : \A i, j \in 1..3 : o[i] = o[j] => i = j }

\* what a unit does: its constructor raises, or its compute() returns a
\* value, returns one json cannot encode, or raises
UnitBehaviours ==
    { [ctor |-> "InitError", outcome |-> Raises] } \cup
    [ctor : {"none"}, outcome : { [repr |-> "json", id |-> 1], Cyclic, Raises }]

\* the directory an earlier process left
LeftOnDisk(units_cached) ==
    [f \in Files |->
        IF \E n \in units_cached : f = get_path(default_key(n))
        THEN [repr |-> "json", id |-> 2] ELSE NoFile]

InitOrder ==
    /\ memory = [s \in Sources |-> EmptyMemory]
    /\ metadata = [s \in Sources |-> {}]
    /\ precached \in SUBSET AnalyzerNames
    /\ disk = [d \in Dirs |-> IF d = cache_dir(Orch) THEN LeftOnDisk(precached)
                              ELSE EmptyDir]
    /\ stored = [s \in Sources |-> EmptyMemory]
    /\ retained = [s \in Sources |-> EmptyMemory]
    /\ last = NoCall
    /\ nops = 0
    /\ persist = [s \in Sources |-> TRUE]
    /\ NoRun
    /\ registry \in Orders
    /\ config \in Configs
    /\ shared \in { [d \in Resources |-> TRUE],
                    [d \in Resources |-> d # "cluster_centroids"] }
    /\ cache_on \in BOOLEAN
    /\ behaviour \in [AnalyzerNames -> UnitBehaviours]
    /\ RegistryIdle /\ UnitIdle /\ ExportIdle /\ TopicsIdle /\ ScoresIdle /\ RetryIdle /\ RaceIdle /\ PipelineIdle

\* the steps of run_all, the unit at the head of the order behaving as
\* behaviour tells; on a cache hit compute() is not called
OrderNext ==
    \/ \E uc \in BOOLEAN : RunAllStart(uc)
    \/ CheckDependencies
    \/ pending # << >> /\ Construct(behaviour[Head(pending)].ctor)
    \/ /\ pending # << >>
       /\ Compute(IF use_cache /\ cache_on /\ Has(Orch, default_key(Head(pending)))
                  THEN Raises ELSE behaviour[Head(pending)].outcome, "ok", "ok")
    \/ RunAllReturn

SpecOrder == InitOrder /\ [][OrderNext]_vars

\* what run_all does for the unit n when it runs alone on the directory the
\* earlier process left: its entry, and the cache afterwards
Alone(n) ==
    LET c == compute(n, shared, behaviour[n].outcome)
        r == compute_cached(cache_on, EmptyMemory, {}, LeftOnDisk(precached), TRUE,
                            n, NoKey, c, "ok", "ok")
        untouched == [mem |-> EmptyMemory, dsk |-> LeftOnDisk(precached)]
    IN  IF ~is_enabled(config, n) \/ missing(n, shared) # {}
        THEN [entry |-> NoEntry] @@ untouched
        ELSE IF behaviour[n].ctor # "none"
        THEN [entry |-> ErrorEntry(behaviour[n].ctor)] @@ untouched
        ELSE IF ~use_cache
        THEN [entry |-> IF c.exc = "none" THEN ResultEntry(c.val) ELSE ErrorEntry(c.exc)]
             @@ untouched
        ELSE [entry |-> IF r.exc = "none" THEN ResultEntry(r.ret) ELSE ErrorEntry(r.exc),
              mem |-> r.mem, dsk |-> r.dsk]

(***************************************************************************)
(* Claims about the order of the units                                     *)
(***************************************************************************)

\* C25  The outcome of run_all does not depend on the order in which the
\* enabled units run: under every iteration order of the registry, with the
\* same shared inputs and the same initial cache, the entry of each unit and
\* the cache entry and file of each unit at the end are those the unit
\* produces when it runs alone, no unit reading the output or the cache entry
\* of another.
C25_OrderIrrelevant ==
    /\ pc # "aborted"
    /\ pc = "done" =>
          /\ \A n \in AnalyzerNames :
                /\ results[n] = Alone(n).entry
                /\ memory[Orch][default_key(n)] = Alone(n).mem[default_key(n)]
                /\ disk[cache_dir(Orch)][get_path(default_key(n))] =
                      Alone(n).dsk[get_path(default_key(n))]
          /\ \A k \in AllKeys :
                (\A n \in AnalyzerNames : k # default_key(n)) =>
                   /\ memory[Orch][k] = Absent
                   /\ disk[cache_dir(Orch)][get_path(k)] = NoFile

\* a run in the reverse of the registration order: the unit that ran first
\* stored its result, the one after it failed, the last one was served from
\* the file an earlier process left
C25_Witness ==
    /\ pc = "done"
    /\ registry = << <<"factions">>, <<"sentiment">>, <<"identity">> >>
    /\ use_cache /\ cache_on
    /\ precached = { <<"identity">> }
    /\ results[<<"factions">>] = ResultEntry([repr |-> "json", id |-> 1])
    /\ results[<<"sentiment">>].kind = "error"
    /\ results[<<"identity">>] = ResultEntry([repr |-> "json", id |-> 2])
    /\ memory[Orch][default_key(<<"factions">>)] = [repr |-> "json", id |-> 1]

(***************************************************************************)
(* Claims about failed computations                                        *)
(***************************************************************************)

\* C26  A failed computation is never cached: a step of run or of run_all in
\* which compute() of a unit raises leaves the memory, the metadata and the
\* directory of the cache exactly as they were, so the unit's key resolves
\* no more than before; and whenever the key of a unit does not resolve (or
\* the cache is not used), run and run_all call compute() of the unit
\* instead of returning anything cached.
C26_FailureNotCached ==
    [][ LET raises(n) == calls_validate(n) /\ validate_dependencies(n, shared) # "none"
            ran == IF last'.op = "run" /\ nops' = nops + 1 /\ last'.computed
                   THEN { last'.key }
                   ELSE computed' \ computed
            called == IF last'.op = "run" /\ nops' = nops + 1
                         /\ last'.exc \notin {"ValueError", "InitError"}
                      THEN { last'.key }
                      ELSE IF pc = "running" /\ pending # << >>
                              /\ units[Head(pending)].status = "computing"
                           THEN { Head(pending) } ELSE {}
        IN  /\ \A n \in ran :
                  (\/ raises(n)
                   \/ last'.op = "run" /\ nops' = nops + 1 /\ last'.exc = "ComputeError"
                   \/ units'[n].exc = "ComputeError" /\ units[n].exc = "none")
                  => /\ memory' = memory
                     /\ metadata' = metadata
                     /\ disk' = disk
                     /\ Has(Orch, default_key(n))' = Has(Orch, default_key(n))
            /\ \A n \in called \cap AnalyzerNames :
                  ~(cache_on /\ Has(Orch, default_key(n))) => n \in ran ]_vars

\* run('sentiment') raised in compute(); the run_all after it, with the
\* cache in use, called compute() of the unit again, which raised again, and
\* the key still does not resolve
C26_Witness ==
    /\ pc = "done"
    /\ use_cache /\ cache_on
    /\ last.op = "run_all"
    /\ last.prev.op = "run"
    /\ last.prev.key = <<"sentiment">>
    /\ last.prev.exc = "ComputeError"
    /\ <<"sentiment">> \in computed
    /\ results[<<"sentiment">>] = ErrorEntry("ComputeError")
    /\ ~Has(Orch, default_key(<<"sentiment">>))

(***************************************************************************)
(* SpecInvalidate: units holding the orchestrator's manager store their    *)
(* results, and invalidate_cache is called with a unit name                *)
(***************************************************************************)
\* the registered names of the model: two of the package and one registered
\* later whose name ends with the first
InvalidateNames == { <<"sentiment">>, <<"factions">> } \cup LateNames

\* AnalyticsOrchestrator.invalidate_cache(analyzer_name)
InvalidateCache(name) ==
    /\ cache_on
    /\ Invalidate(Orch, name)

InvalidateNext ==
    \/ \E n \in InvalidateNames, o \in { [repr |-> "json", id |-> 1],
                                         [repr |-> "numpy", id |-> 2], Raises } :
          ComputeCached(Orch, n, NoKey, o, "ok", "ok")
    \/ \E n \in InvalidateNames : InvalidateCache(n)
    \/ ClearMemory(Orch)

SpecInvalidate == Init /\ [][InvalidateNext]_vars

(***************************************************************************)
(* Claims about invalidate_cache                                           *)
(***************************************************************************)

FilesNext ==
    \/ \E p \in BOOLEAN : NewManager("camera", p)
    \/ \E k \in CacheKeys, v \in JsonValues, pa \in PersistArgs :
          Set("camera", k, v, pa, "ok")
    \/ \E k \in CacheKeys : Get("camera", k, "ok")
    \/ ClearMemory("camera")

SpecFiles == Init /\ [][FilesNext]_vars

(***************************************************************************)
(* Claims about the files of the keys                                      *)
(***************************************************************************)

MaxSpeechRows == 4

\* the party labels of the table, the unknown value among them
Parties == {"A", "Unknown Group"}

GuardRows == [deputy : Speakers, group : Parties, emb : 0..1]

Clusters == {0, 1}

\* df['cluster']: the cluster assigned to a row from its embedding
cluster(row) == IF row.emb = 0 THEN 0 ELSE 1

\* value_counts() of the cluster column over some rows
value_counts(t, rows) ==
    [c \in { cluster(t[i]) : i \in rows } |->
        Cardinality({ i \in rows : cluster(t[i]) = c })]

\* idxmax() of the counts; among equal counts the one that comes first in
\* the order value_counts left them in, given by tie
idxmax(counts, tie) ==
    IF tie \in DOMAIN counts /\ \A c \in DOMAIN counts : counts[tie] >= counts[c]
    THEN tie
    ELSE CHOOSE c \in DOMAIN counts : \A o \in DOMAIN counts : counts[c] >= counts[o]

\* the main cluster per party
party_clusters(t, tie) ==
    [party \in unique(t, "group") \ {"Unknown Group"} |->
        idxmax(value_counts(t, Mask(t, "group", party)), tie)]

MIN_SPEECHES_FOR_REBEL == 3

\* a guard that lets every deputy through
too_few_never(deputy_df) == FALSE

\* if len(deputy_df) < MIN_SPEECHES_FOR_REBEL: continue
too_few(deputy_df) == Cardinality(deputy_df) < MIN_SPEECHES_FOR_REBEL

\* the entry compute_rebel_scores builds for a deputy, without the two
\* cluster distributions
rebel(t, clusters, deputy) ==
    LET deputy_df == Mask(t, "deputy", deputy)
        party == t[FirstRow(t, "deputy", deputy)].group
        main_cluster == clusters[party]
        total == Cardinality(deputy_df)
        in_main == Cardinality({ i \in deputy_df : cluster(t[i]) = main_cluster })
    IN  [deputy |-> deputy,
         rebel_pct |-> IF total > 0 THEN [n |-> (total - in_main) * 100, d |-> total]
                       ELSE [n |-> 0, d |-> 1],
         main_cluster |-> main_cluster,
         speeches_in_main |-> in_main,
         total_speeches |-> total,
         party |-> party]

\* compute_rebel_scores: the entries of the dict returned
compute_rebel_scores(t, conformity_df, tie) ==
    IF conformity_df = {} THEN {}
    ELSE LET clusters == party_clusters(t, tie)
         IN  { rebel(t, clusters, deputy) :
                 deputy \in { d \in unique(t, "deputy") :
                                /\ ~too_few(Mask(t, "deputy", d))
                                /\ t[FirstRow(t, "deputy", d)].group \in DOMAIN clusters } }

\* np.mean(np.var(embeddings[rows], axis=0)) for one coordinate
var(t, rows) ==
    LET n == Cardinality(rows)
        s == Sum([i \in rows |-> t[i].emb], rows)
        q == Sum([i \in rows |-> t[i].emb * t[i].emb], rows)
    IN  [n |-> n * q - s * s, d |-> n * n]

\* max(0, min(100, (1 - relative_variance) * 100 + 50))
consistency_score(speaker_variance, global_variance) ==
    LET relative_variance == [n |-> speaker_variance.n * global_variance.d,
                              d |-> speaker_variance.d * global_variance.n]
        raw == [n |-> 150 * relative_variance.d - 100 * relative_variance.n,
                d |-> relative_variance.d]
    IN  IF ~(global_variance.n > 0) THEN [n |-> 50, d |-> 1]
        ELSE IF raw.n < 0 THEN [n |-> 0, d |-> 1]
        ELSE IF raw.n > 100 * raw.d THEN [n |-> 100, d |-> 1]
        ELSE raw

classification(score) ==
    IF Gt(score, [n |-> 70, d |-> 1]) THEN "very_consistent"
    ELSE IF Gt(score, [n |-> 50, d |-> 1]) THEN "consistent"
    ELSE IF Gt(score, [n |-> 30, d |-> 1]) THEN "variable"
    ELSE "inconsistent"

\* compute_consistency_index: the entries of the dict returned
compute_consistency_index(t) ==
    LET global_variance == var(t, DOMAIN t)
    IN  { LET rows == Mask(t, "deputy", speaker)
              speaker_variance == var(t, rows)
              score == consistency_score(speaker_variance, global_variance)
          IN  [speaker |-> speaker,
               score |-> score,
               variance |-> speaker_variance,
               classification |-> classification(score),
               n_speeches |-> Cardinality(rows)] :
          speaker \in { s \in unique(t, "deputy") :
                          ~(Cardinality(Mask(t, "deputy", s)) < 3) } }

\* main() computes the rebel scores of the table from its conformity
\* table, the speaker analyser its consistency index
GuardScore(tie) ==
    /\ ~scores.done
    /\ scores' = [rebels |-> compute_rebel_scores(df, compute_senator_conformity(df), tie),
                  consistency |-> compute_consistency_index(df),
                  done |-> TRUE]
    /\ UNCHANGED df
    /\ UNCHANGED <<coreVars, orchVars, besideScores>>

\* any table of 1..MaxSpeechRows rows
InitGuard ==
    /\ BaseIdle
    /\ RegistryIdle /\ UnitIdle /\ ExportIdle /\ TopicsIdle /\ RetryIdle /\ RaceIdle /\ OrderIdle /\ PipelineIdle
    /\ df \in UNION { [1..n -> GuardRows] : n \in 1..MaxSpeechRows }
    /\ scores = NoScores

GuardNext == \E tie \in Clusters : GuardScore(tie)

SpecGuard == InitGuard /\ [][GuardNext]_vars

\* C29: an entity with fewer than 3 speeches gets no entry: no rebel score
\* for a deputy and no consistency index for a speaker with fewer than 3
\* rows of the table, so every entry counts at least 3 speeches, all the
\* rows of its entity; a rebel entry has speeches_in_main <= total_speeches
\* and a rebel_pct from 0 to 100.
C29_MinimumSampleGuard ==
    scores.done =>
       /\ \A d \in unique(df, "deputy") :
             Cardinality(Mask(df, "deputy", d)) < 3 =>
                /\ ~\E e \in scores.rebels : e.deputy = d
                /\ ~\E e \in scores.consistency : e.speaker = d
       /\ \A e \in scores.rebels :
             /\ e.total_speeches >= 3
             /\ e.total_speeches = Cardinality(Mask(df, "deputy", e.deputy))
             /\ e.speeches_in_main >= 0
             /\ e.speeches_in_main <= e.total_speeches
             /\ ~Gt([n |-> 0, d |-> 1], e.rebel_pct)
             /\ ~Gt(e.rebel_pct, [n |-> 100, d |-> 1])
       /\ \A e \in scores.consistency :
             /\ e.n_speeches >= 3
             /\ e.n_speeches = Cardinality(Mask(df, "deputy", e.speaker))

\* a deputy of a known party with fewer than 3 speeches is left out while
\* another one is scored as a rebel and for consistency
C29_Witness ==
    /\ scores.done
    /\ \E d \in unique(df, "deputy") :
          /\ Cardinality(Mask(df, "deputy", d)) \in 1..2
          /\ df[FirstRow(df, "deputy", d)].group = "A"
          /\ ~\E e \in scores.rebels : e.deputy = d
    /\ \E e \in scores.rebels : e.speeches_in_main < e.total_speeches
    /\ scores.consistency # {}

(***************************************************************************)
(* SpecPipeline: runs of main() on one data source, one after the other,   *)
(* over the files the earlier runs left in CACHE_DIR.  A speech has a      *)
(* text, a source and the month of its date; the embedding of a text is a  *)
(* vector that names it, so that two texts have different embeddings.      *)
(* Every speech has a recognised party, so that of the filters of main()   *)
(* the minimum of words is the one that removes rows.                      *)
(***************************************************************************)
\* number of speeches a fetch returns at most
MaxSpeeches == 2

\* the speeches a fetch can return; the one without text is too short
Speeches ==
    { [text |-> "a", source |-> "camera", month |-> "2024-01"],
      [text |-> "b", source |-> "senate", month |-> "2024-01"],
      [text |-> "a", source |-> "senate", month |-> "2024-02"],
      [text |-> "b", source |-> "camera", month |-> "2024-02"],
      [text |-> "", source |-> "camera", month |-> "2024-02"] }

Fetches == UNION { [1..n -> Speeches] : n \in 0..MaxSpeeches }

\* the year and month arguments of filter_data_by_period
Years == {"None", "2024", "2023"}

Months == {"None", "2024-01", "2024-02"}

\* x.year of the parsed date of a row: every speech is of 2024
year_of(row) == "2024"

\* model.encode of one text
embed(text) == [vec |-> text]

\* generate_embeddings(df['cleaned_text'].tolist())
generate_embeddings(d) == [i \in DOMAIN d |-> embed(d[i].text)]

\* a[mask]: the rows of a at which the boolean mask holds, in their order
boolean_index(a, mask) ==
    LET F[i \in 0..Len(a)] ==
           IF i = 0 THEN << >>
           ELSE IF mask[i] THEN Append(F[i - 1], a[i]) ELSE F[i - 1]
    IN  F[Len(a)]

\* df[df['cleaned_text'].str.split().str.len() >= MIN_WORDS]
enough_words(d) == boolean_index(d, [i \in DOMAIN d |-> d[i].text # ""])

\* the cached matrix is taken when its length is that of the dataset
cache_usable(loaded, d) == ~(Len(loaded) # Len(d))

\* filter_data_by_period
filter_data_by_period(d, e, year, month) ==
    IF year = "None" /\ month = "None" THEN [df |-> d, embeddings |-> e]
    ELSE LET mask == [i \in DOMAIN d |->
                        IF month # "None" THEN d[i].month = month
                        ELSE year_of(d[i]) = year]
         IN  [df |-> boolean_index(d, mask), embeddings |-> boolean_index(e, mask)]

\* the slice of one source
source_slice(d, e, src) ==
    LET mask == [i \in DOMAIN d |-> d[i].source = src]
    IN  [df |-> boolean_index(d, mask), embeddings |-> boolean_index(e, mask)]

\* main() up to the filters of the dataset: the speeches come from the
\* cache file or are fetched and cached; an empty fetch ends the run
LoadSpeeches(force_refetch, force_reembed, fetched) ==
    /\ main_pc.pc = "start"
    /\ LET from_cache == ~force_refetch /\ cache_files.speeches.exists
           raw == IF from_cache THEN cache_files.speeches.content ELSE fetched
       IN  IF ~from_cache /\ fetched = << >>
           THEN UNCHANGED <<cache_files, main_pc, dataset>>
           ELSE /\ cache_files' =
                     IF from_cache THEN cache_files
                     ELSE [cache_files EXCEPT
                              !.speeches = [exists |-> TRUE, content |-> fetched]]
                /\ main_pc' = [pc |-> "loaded", force_refetch |-> force_refetch,
                               force_reembed |-> force_reembed]
                /\ dataset' = enough_words(raw)
    /\ UNCHANGED <<embeddings, subset>>
    /\ UNCHANGED <<coreVars, orchVars, besidePipeline>>

\* the cached matrix is loaded and checked, or the embeddings are
\* generated and cached; generating can raise, which ends the run
LoadEmbeddings(outcome) ==
    /\ main_pc.pc = "loaded"
    /\ LET tried == /\ ~main_pc.force_reembed /\ ~main_pc.force_refetch
                    /\ cache_files.embeddings.exists
           loaded == cache_files.embeddings.content
       IN  IF tried /\ cache_usable(loaded, dataset)
           THEN /\ embeddings' = loaded
                /\ main_pc' = [main_pc EXCEPT !.pc = "embedded"]
                /\ UNCHANGED <<cache_files, dataset>>
           ELSE IF outcome = "raise"
           THEN /\ main_pc' = NoMain
                /\ dataset' = << >>
                /\ UNCHANGED <<cache_files, embeddings>>
           ELSE /\ embeddings' = generate_embeddings(dataset)
                /\ cache_files' =
                     [cache_files EXCEPT
                         !.embeddings = [exists |-> TRUE,
                                         content |-> generate_embeddings(dataset)]]
                /\ main_pc' = [main_pc EXCEPT !.pc = "embedded"]
                /\ UNCHANGED dataset
    /\ UNCHANGED subset
    /\ UNCHANGED <<coreVars, orchVars, besidePipeline>>

\* compute_period_analytics filters the dataset and the matrix of main()
FilterByPeriod(year, month) ==
    /\ main_pc.pc = "embedded"
    /\ subset' = filter_data_by_period(dataset, embeddings, year, month)
    /\ UNCHANGED <<cache_files, main_pc, dataset, embeddings>>
    /\ UNCHANGED <<coreVars, orchVars, besidePipeline>>

\* for src in sources_in_data: the slice of the source
Slice(src) ==
    /\ main_pc.pc = "embedded"
    /\ src \in { dataset[i].source : i \in DOMAIN dataset }
    /\ subset' = source_slice(dataset, embeddings, src)
    /\ UNCHANGED <<cache_files, main_pc, dataset, embeddings>>
    /\ UNCHANGED <<coreVars, orchVars, besidePipeline>>

\* main() returns; the files stay
MainReturn ==
    /\ main_pc.pc = "embedded"
    /\ main_pc' = NoMain
    /\ dataset' = << >>
    /\ embeddings' = << >>
    /\ subset' = NoSubset
    /\ UNCHANGED cache_files
    /\ UNCHANGED <<coreVars, orchVars, besidePipeline>>

InitPipeline ==
    /\ BaseIdle
    /\ RegistryIdle /\ UnitIdle /\ ExportIdle /\ TopicsIdle /\ ScoresIdle /\ RetryIdle /\ RaceIdle /\ OrderIdle
    /\ PipelineIdle

PipelineNext ==
    \/ \E force_refetch \in BOOLEAN, force_reembed \in BOOLEAN, fetched \in Fetches :
          LoadSpeeches(force_refetch, force_reembed, fetched)
    \/ \E outcome \in {"ok", "raise"} : LoadEmbeddings(outcome)
    \/ \E year \in Years, month \in Months : FilterByPeriod(year, month)
    \/ \E src \in {"camera", "senate"} : Slice(src)
    \/ MainReturn

SpecPipeline == InitPipeline /\ [][PipelineNext]_vars

\* row i of the matrix is the embedding of the speech in row i
Aligned(d, e) ==
    /\ Len(e) = Len(d)
    /\ \A i \in DOMAIN d : e[i] = embed(d[i].text)

\* C30: once the embeddings are loaded or generated the matrix of main()
\* has the rows of its dataset, row i the embedding of the speech in row
\* i, and so has every pair filter_data_by_period or the per-source
\* slicing derives from them.
C30_RowAligned ==
    /\ main_pc.pc = "embedded" => Aligned(dataset, embeddings)
    /\ Aligned(subset.df, subset.embeddings)

====
